---- MODULE Spec2Model ----
(***************************************************************************)
(* Model of the explicit-wait / element-interaction layer of the UI test   *)
(* suite: CheckboxUtils, ElementUtils, BasePage, WaitUtils, DropdownUtils. *)
(* The browser (DOM nodes, the driver's answers) is the environment; every *)
(* handler of the repository is one action whose body follows its code.    *)
(***************************************************************************)
EXTENDS Integers, Sequences, FiniteSets, TLC

VARIABLES cbEl, cbLast, cbPrev,
          wDom, wSelf, wPc, wCall, wElapsed, wRet,
          elDom, elLast,
          ddEl, ddLast, ddPrev,
          spPage, spPc, spElapsed, spReads, spRet, spFresh, spMsg,
          flEnv, flBr, flRun, flTrace,
          lgEnv, lgBr, lgRun,
          prEnv, prBr, prRun,
          hsPage, hsPc, hsLog

cbVars == <<cbEl, cbLast, cbPrev>>
wVars == <<wDom, wSelf, wPc, wCall, wElapsed, wRet>>
elVars == <<elDom, elLast>>
ddVars == <<ddEl, ddLast, ddPrev>>
spVars == <<spPage, spPc, spElapsed, spReads, spRet, spFresh, spMsg>>
flVars == <<flEnv, flBr, flRun, flTrace>>
lgVars == <<lgEnv, lgBr, lgRun>>
prVars == <<prEnv, prBr, prRun>>
hsVars == <<hsPage, hsPc, hsLog>>
vars == <<cbVars, wVars, elVars, ddVars, spVars, flVars, lgVars, prVars, hsVars>>

\* A call on one component leaves the state of the other components alone.
CbFrame == UNCHANGED <<wVars, elVars, ddVars, spVars, flVars, lgVars, prVars, hsVars>>
WFrame == UNCHANGED <<cbVars, elVars, ddVars, spVars, flVars, lgVars, prVars, hsVars>>
ElFrame == UNCHANGED <<cbVars, wVars, ddVars, spVars, flVars, lgVars, prVars, hsVars>>
DdFrame == UNCHANGED <<cbVars, wVars, elVars, spVars, flVars, lgVars, prVars, hsVars>>
SpFrame == UNCHANGED <<cbVars, wVars, elVars, ddVars, flVars, lgVars, prVars, hsVars>>
FlFrame == UNCHANGED <<cbVars, wVars, elVars, ddVars, spVars, lgVars, prVars, hsVars>>
LgFrame == UNCHANGED <<cbVars, wVars, elVars, ddVars, spVars, flVars, prVars, hsVars>>
PrFrame == UNCHANGED <<cbVars, wVars, elVars, ddVars, spVars, flVars, lgVars, hsVars>>
HsFrame == UNCHANGED <<cbVars, wVars, elVars, ddVars, spVars, flVars, lgVars, prVars>>

\* Python's None, and "no exception was raised".
None == "None"
NoExc == "none"

(***************************************************************************)
(* CheckboxUtils (src/data/utilities/checkbox_utils.py)                    *)
(***************************************************************************)

\* The DOM node behind a checkbox / radio handle, as the driver answers for it.
CheckboxElements ==
    [kind : {"checkbox", "radio"}, attached : BOOLEAN, displayed : BOOLEAN,
     enabled : BOOLEAN, selected : BOOLEAN]

\* The handle a caller passes: a WebElement, or None (a failed lookup upstream).
Handles == {"el", None}

\* element.is_selected(): a stale handle raises, otherwise the node's state.
WebElement_is_selected(el) ==
    IF ~el.attached
    THEN [exc |-> "StaleElementReferenceException", val |-> FALSE]
    ELSE [exc |-> NoExc, val |-> el.selected]

\* element.click() on a checkbox or radio input.  A stale handle and a hidden
\* node raise; a disabled node takes the click without effect; a checkbox
\* toggles; a radio becomes selected.  rerender: the page re-renders on the
\* click, which detaches the node from the handle.
WebElement_click(el, rerender) ==
    IF ~el.attached
    THEN [exc |-> "StaleElementReferenceException", el |-> el]
    ELSE IF ~el.displayed
    THEN [exc |-> "ElementNotInteractableException", el |-> el]
    ELSE IF ~el.enabled
    THEN [exc |-> NoExc, el |-> el]
    ELSE [exc |-> NoExc,
          el |-> [el EXCEPT !.selected = IF el.kind = "radio" THEN TRUE ELSE ~el.selected,
                            !.attached = ~rerender]]

\* The outcome of a CheckboxUtils call: the value returned, the exception that
\* reached the caller, the number of element.click() commands issued, the node
\* afterwards.
CbOutcome(ret, raised, clicks, el) ==
    [ret |-> ret, raised |-> raised, clicks |-> clicks, el |-> el]

\* try: ... except Exception: return False
CbExcept(exc, clicks, el) == CbOutcome(FALSE, NoExc, clicks, el)

is_checked(h, el) ==
    IF h = None THEN CbOutcome(FALSE, NoExc, 0, el)
    ELSE LET r == WebElement_is_selected(el) IN
         IF r.exc # NoExc THEN CbExcept(r.exc, 0, el)
         ELSE CbOutcome(r.val, NoExc, 0, el)

\* The shared shape of check / uncheck / set_state: read the state, click when
\* need[state read] says so, read again and compare with `target`.
CbClickIf(h, el, need, target, rerender) ==
    IF h = None THEN CbOutcome(FALSE, NoExc, 0, el)
    ELSE LET r1 == WebElement_is_selected(el) IN
         IF r1.exc # NoExc THEN CbExcept(r1.exc, 0, el)
         ELSE IF ~need[r1.val]
         THEN LET r2 == WebElement_is_selected(el) IN
              IF r2.exc # NoExc THEN CbExcept(r2.exc, 0, el)
              ELSE CbOutcome(r2.val = target, NoExc, 0, el)
         ELSE LET c == WebElement_click(el, rerender) IN
              IF c.exc # NoExc THEN CbExcept(c.exc, 1, c.el)
              ELSE LET r2 == WebElement_is_selected(c.el) IN
                   IF r2.exc # NoExc THEN CbExcept(r2.exc, 1, c.el)
                   ELSE CbOutcome(r2.val = target, NoExc, 1, c.el)

check_always_clicks(h, el, rerender) ==
    LET need == [cur \in BOOLEAN |-> TRUE] IN CbClickIf(h, el, need, TRUE, rerender)

check(h, el, rerender) ==
    LET need == [cur \in BOOLEAN |-> ~cur] IN CbClickIf(h, el, need, TRUE, rerender)

uncheck(h, el, rerender) ==
    LET need == [cur \in BOOLEAN |-> cur] IN CbClickIf(h, el, need, FALSE, rerender)

toggle(h, el, rerender) ==
    IF h = None THEN CbOutcome(FALSE, NoExc, 0, el)
    ELSE LET c == WebElement_click(el, rerender) IN
         IF c.exc # NoExc THEN CbExcept(c.exc, 1, c.el)
         ELSE CbOutcome(TRUE, NoExc, 1, c.el)

\* set_state that reports success without re-reading the selection state.
set_state_unverified(h, el, checked, rerender) ==
    LET need == [cur \in BOOLEAN |-> (checked /\ ~cur) \/ (~checked /\ cur)]
        r == CbClickIf(h, el, need, checked, rerender)
    IN IF h = None THEN r ELSE [r EXCEPT !.ret = TRUE]

\* set_state that clicks whatever the current state is.
set_state_always_clicks(h, el, checked, rerender) ==
    LET need == [cur \in BOOLEAN |-> TRUE] IN CbClickIf(h, el, need, checked, rerender)

set_state(h, el, checked, rerender) ==
    LET need == [cur \in BOOLEAN |-> (checked /\ ~cur) \/ (~checked /\ cur)]
    IN CbClickIf(h, el, need, checked, rerender)

\* What the model remembers of a call: the operation, its handle and argument,
\* its outcome, and the node before and after it.
CbCall(op, h, arg, pre, out) ==
    [op |-> op, h |-> h, arg |-> arg, ret |-> out.ret, raised |-> out.raised,
     clicks |-> out.clicks, pre |-> pre, post |-> out.el]

CbNoCall ==
    [op |-> "none", h |-> None, arg |-> FALSE, ret |-> FALSE, raised |-> NoExc,
     clicks |-> 0,
     pre |-> [kind |-> "checkbox", attached |-> TRUE, displayed |-> TRUE,
              enabled |-> TRUE, selected |-> FALSE],
     post |-> [kind |-> "checkbox", attached |-> TRUE, displayed |-> TRUE,
               enabled |-> TRUE, selected |-> FALSE]]

\* A handle is attached to its node when the test obtains it.
CbInit ==
    /\ cbEl \in {e \in CheckboxElements : e.attached}
    /\ cbLast = CbNoCall
    /\ cbPrev = CbNoCall

CbIdle ==
    /\ cbEl = CbNoCall.pre
    /\ cbLast = CbNoCall
    /\ cbPrev = CbNoCall

CbDo(op, h, arg, out) ==
    /\ cbEl' = out.el
    /\ cbLast' = CbCall(op, h, arg, cbEl, out)
    /\ cbPrev' = cbLast
    /\ CbFrame

CbIsChecked ==
    \E h \in Handles : CbDo("is_checked", h, FALSE, is_checked(h, cbEl))

CbCheck ==
    \E h \in Handles, rr \in BOOLEAN : CbDo("check", h, TRUE, check(h, cbEl, rr))

CbUncheck ==
    \E h \in Handles, rr \in BOOLEAN : CbDo("uncheck", h, FALSE, uncheck(h, cbEl, rr))

CbToggle ==
    \E h \in Handles, rr \in BOOLEAN : CbDo("toggle", h, FALSE, toggle(h, cbEl, rr))

CbSetState ==
    \E h \in Handles, checked \in BOOLEAN, rr \in BOOLEAN :
        CbDo("set_state", h, checked, set_state(h, cbEl, checked, rr))

\* The page changes the node under the handle between two calls of the test:
\* a script flips the selection, enables or disables, shows or hides the node,
\* or a re-render detaches it.  The call history no longer describes "the call
\* immediately before".
CbEnvChange ==
    /\ \E e \in CheckboxElements :
          /\ e.kind = cbEl.kind
          /\ e # cbEl
          /\ (~cbEl.attached => ~e.attached)
          /\ cbEl' = e
    /\ cbLast' = [CbNoCall EXCEPT !.op = "env"]
    /\ cbPrev' = cbLast
    /\ CbFrame

CbNext ==
    \/ CbIsChecked
    \/ CbCheck
    \/ CbUncheck
    \/ CbToggle
    \/ CbSetState
    \/ CbEnvChange


(***************************************************************************)
(* WaitUtils (src/utilities/wait_utils.py)                                 *)
(* Time is counted in polling intervals of the explicit wait; a timeout of *)
(* n is n polling intervals.  One evaluation of a condition takes no time. *)
(***************************************************************************)

\* The largest timeout (argument or instance default) the model draws.
MaxTimeout == 2

WaitMethods ==
    {"wait_for_visibility", "wait_for_clickable", "wait_for_presence",
     "wait_for_invisibility", "wait_for_element"}

\* The node a locator matches, if any, as the driver answers for it.
DomNodes ==
    {d \in [present : BOOLEAN, displayed : BOOLEAN, enabled : BOOLEAN] :
        ~d.present => (~d.displayed /\ ~d.enabled)}

\* The timeout argument of a wait method: <<n>> for the number n, <<>> for None.
NoTimeout == <<>>
TimeoutArgs == {NoTimeout} \cup {<<n>> : n \in 0..MaxTimeout}

\* Python truthiness of what a condition returns.
Truthy(v) == v \in {"el", "True"}

\* timeout_val = timeout if timeout is not None else self.timeout, written as
\* `timeout or self.timeout`.
EffectiveTimeout_falsy(timeout, selfTimeout) ==
    IF timeout # NoTimeout /\ timeout # <<0>> THEN timeout[1] ELSE selfTimeout

\* timeout_val = timeout if timeout is not None else self.timeout
EffectiveTimeout(timeout, selfTimeout) ==
    IF timeout # NoTimeout THEN timeout[1] ELSE selfTimeout

\* The expected condition each method hands to WebDriverWait.until;
\* wait_for_element delegates to wait_for_presence.
WaitCondition(method) ==
    CASE method = "wait_for_visibility" -> "visibility_of_element_located"
      [] method = "wait_for_clickable" -> "element_to_be_clickable"
      [] method = "wait_for_presence" -> "presence_of_element_located"
      [] method = "wait_for_invisibility" -> "invisibility_of_element_located"
      [] method = "wait_for_element" -> "presence_of_element_located"

\* One evaluation of an expected condition against the DOM.
ExpectedCondition(cond, dom) ==
    CASE cond = "presence_of_element_located" ->
            IF dom.present THEN [exc |-> NoExc, val |-> "el"]
            ELSE [exc |-> "NoSuchElementException", val |-> "False"]
      [] cond = "visibility_of_element_located" ->
            IF ~dom.present THEN [exc |-> "NoSuchElementException", val |-> "False"]
            ELSE [exc |-> NoExc, val |-> IF dom.displayed THEN "el" ELSE "False"]
      [] cond = "element_to_be_clickable" ->
            IF ~dom.present THEN [exc |-> "NoSuchElementException", val |-> "False"]
            ELSE [exc |-> NoExc,
                  val |-> IF dom.displayed /\ dom.enabled THEN "el" ELSE "False"]
      [] cond = "invisibility_of_element_located" ->
            IF ~dom.present THEN [exc |-> NoExc, val |-> "True"]
            ELSE [exc |-> NoExc, val |-> IF dom.displayed THEN "False" ELSE "el"]

\* An until loop that never looks at its deadline.
WebDriverWait_until_no_deadline(cond, dom, elapsed, limit, err) ==
    IF err
    THEN [done |-> TRUE, exc |-> "WebDriverException", val |-> "False", elapsed |-> elapsed]
    ELSE LET v == ExpectedCondition(cond, dom) IN
         IF v.exc = NoExc /\ Truthy(v.val)
         THEN [done |-> TRUE, exc |-> NoExc, val |-> v.val, elapsed |-> elapsed]
         ELSE [done |-> FALSE, exc |-> NoExc, val |-> "False", elapsed |-> elapsed + 1]

\* One iteration of WebDriverWait(driver, limit).until(cond): evaluate the
\* condition (NoSuchElementException is ignored); return its value when truthy;
\* otherwise sleep one polling interval and raise TimeoutException when the
\* deadline has passed.  err: the driver itself fails (WebDriverException).
WebDriverWait_until(cond, dom, elapsed, limit, err) ==
    IF err
    THEN [done |-> TRUE, exc |-> "WebDriverException", val |-> "False", elapsed |-> elapsed]
    ELSE LET v == ExpectedCondition(cond, dom) IN
         IF v.exc = NoExc /\ Truthy(v.val)
         THEN [done |-> TRUE, exc |-> NoExc, val |-> v.val, elapsed |-> elapsed]
         ELSE IF elapsed + 1 > limit
         THEN [done |-> TRUE, exc |-> "TimeoutException", val |-> "False",
               elapsed |-> elapsed + 1]
         ELSE [done |-> FALSE, exc |-> NoExc, val |-> "False", elapsed |-> elapsed + 1]

\* A wait method without its try/except: the exception reaches the caller.
WaitUtils_return_reraise(method, u) ==
    IF u.exc # NoExc THEN [ret |-> None, raised |-> u.exc]
    ELSE [ret |-> IF method = "wait_for_invisibility" THEN "True" ELSE u.val,
          raised |-> NoExc]

\* try: element = WebDriverWait(...).until(...); return element
\* except Exception: return None      (wait_for_invisibility: True / False)
WaitUtils_return(method, u) ==
    IF u.exc # NoExc
    THEN [ret |-> IF method = "wait_for_invisibility" THEN "False" ELSE None,
          raised |-> NoExc]
    ELSE [ret |-> IF method = "wait_for_invisibility" THEN "True" ELSE u.val,
          raised |-> NoExc]

WNoCall == [method |-> "none", timeout |-> NoTimeout, limit |-> 0]
WNoRet ==
    [ret |-> None, raised |-> NoExc, exc |-> NoExc,
     dom |-> [present |-> FALSE, displayed |-> FALSE, enabled |-> FALSE]]

\* WaitUtils.__init__: self.timeout = timeout
WInit ==
    /\ wDom \in DomNodes
    /\ wSelf \in 0..MaxTimeout
    /\ wPc = "idle"
    /\ wCall = WNoCall
    /\ wElapsed = 0
    /\ wRet = WNoRet

WIdle ==
    /\ wDom = WNoRet.dom
    /\ wSelf = 0
    /\ wPc = "idle"
    /\ wCall = WNoCall
    /\ wElapsed = 0
    /\ wRet = WNoRet

\* A wait method is entered: the effective timeout is fixed and the clock of
\* this call starts.
WaitStart ==
    /\ wPc \in {"idle", "returned"}
    /\ \E method \in WaitMethods, timeout \in TimeoutArgs :
          wCall' = [method |-> method, timeout |-> timeout,
                    limit |-> EffectiveTimeout(timeout, wSelf)]
    /\ wPc' = "polling"
    /\ wElapsed' = 0
    /\ wRet' = WNoRet
    /\ UNCHANGED <<wDom, wSelf>>
    /\ WFrame

\* One iteration of the blocking poll loop; on its last iteration the method
\* returns to its caller.
WaitPoll ==
    /\ wPc = "polling"
    /\ \E err \in BOOLEAN :
          LET u == WebDriverWait_until(WaitCondition(wCall.method), wDom,
                                       wElapsed, wCall.limit, err)
              r == WaitUtils_return(wCall.method, u)
          IN /\ wElapsed' = u.elapsed
             /\ IF u.done
                THEN /\ wPc' = "returned"
                     /\ wRet' = [ret |-> r.ret, raised |-> r.raised, exc |-> u.exc,
                                 dom |-> wDom]
                ELSE /\ wPc' = "polling"
                     /\ wRet' = wRet
    /\ UNCHANGED <<wDom, wSelf, wCall>>
    /\ WFrame

\* The page changes what the locator matches, at any moment.
WaitEnvChange ==
    /\ \E d \in DomNodes : d # wDom /\ wDom' = d
    /\ UNCHANGED <<wSelf, wPc, wCall, wElapsed, wRet>>
    /\ WFrame

WNext ==
    \/ WaitStart
    \/ WaitPoll
    \/ WaitEnvChange

(***************************************************************************)
(* ElementUtils (src/data/utilities/element_utils.py), BasePage            *)
(* (src/base/base_page.py), LoginPage (src/pages/login_page.py)            *)
(***************************************************************************)

\* The longest text typed into a field, and the longest content a field holds
\* before a call.
MaxLen == 2

Chars == {"a", "b"}

\* Strings of at most n characters, as sequences.
Strings(n) == UNION {[1..k -> Chars] : k \in 0..n}

\* The node a locator matches: an input with a value, or an element with text.
ElementNodes ==
    {d \in [present : BOOLEAN, displayed : BOOLEAN, enabled : BOOLEAN,
            value : Strings(MaxLen), text : {<<>>, <<"a">>}] :
        ~d.present => (~d.displayed /\ ~d.enabled /\ d.value = <<>> /\ d.text = <<>>)}

\* The outcome of a wrapper call.  ret: a Python bool or None by name, or
\* "str" when a string is returned, which txt then holds.  exc: the exception
\* raised inside the body; raised: the exception that reached the caller.
\* trace: the WaitUtils methods and driver / element commands the call issued.
\* waited: what the wait primitive returned to the call, "nowait" if it was not
\* called.
ElOut(ret, txt, exc, trace, waited, dom) ==
    [ret |-> ret, txt |-> txt, exc |-> exc, raised |-> exc, trace |-> trace,
     waited |-> waited, dom |-> dom]

\* try: <body> except Exception: return <default>
Swallowed(body, defRet, defTxt) ==
    IF body.exc # NoExc
    THEN [body EXCEPT !.ret = defRet, !.txt = defTxt, !.raised = NoExc]
    ELSE body

\* A body with no try/except around it: its exception is the caller's.
Propagated(body) == body

\* driver.find_element(*locator): an immediate lookup, no wait.
driver_find_element(dom) ==
    IF dom.present THEN NoExc ELSE "NoSuchElementException"

\* element.click() on the node; stale: the node was replaced since the lookup.
Element_click(dom, stale) ==
    IF stale THEN "StaleElementReferenceException"
    ELSE IF ~dom.displayed THEN "ElementNotInteractableException"
    ELSE NoExc

\* element.clear(): empties an editable input.
Element_clear(dom, stale) ==
    IF stale THEN [exc |-> "StaleElementReferenceException", dom |-> dom]
    ELSE IF ~dom.displayed THEN [exc |-> "ElementNotInteractableException", dom |-> dom]
    ELSE IF ~dom.enabled THEN [exc |-> "InvalidElementStateException", dom |-> dom]
    ELSE [exc |-> NoExc, dom |-> [dom EXCEPT !.value = <<>>]]

\* element.send_keys(text): appends the keys to the input's value.
Element_send_keys(dom, text, stale) ==
    IF stale THEN [exc |-> "StaleElementReferenceException", dom |-> dom]
    ELSE IF ~dom.displayed \/ ~dom.enabled
    THEN [exc |-> "ElementNotInteractableException", dom |-> dom]
    ELSE [exc |-> NoExc, dom |-> [dom EXCEPT !.value = dom.value \o text]]

\* element.text: the rendered text, empty for a hidden node.
Element_text(dom, stale) ==
    IF stale THEN [exc |-> "StaleElementReferenceException", val |-> <<>>]
    ELSE [exc |-> NoExc, val |-> IF dom.displayed THEN dom.text ELSE <<>>]

\* element.get_attribute(name): "value" is the input's value; an attribute the
\* node does not have gives None.
Element_get_attribute(dom, attribute, stale) ==
    IF stale THEN [exc |-> "StaleElementReferenceException", ret |-> None, val |-> <<>>]
    ELSE IF attribute = "value" THEN [exc |-> NoExc, ret |-> "str", val |-> dom.value]
    ELSE [exc |-> NoExc, ret |-> None, val |-> <<>>]

Attributes == {"value", "href"}

\* ---- ElementUtils: every method is try: ... except Exception: default ----

\* ElementUtils.click with the exception handler left out.
ElementUtils_click_unhandled(dom, stale) ==
    Propagated(
        IF driver_find_element(dom) # NoExc
        THEN ElOut("False", <<>>, driver_find_element(dom), <<"find_element">>, "nowait", dom)
        ELSE LET c == Element_click(dom, stale # "no") IN
             ElOut(IF c = NoExc THEN "True" ELSE "False", <<>>, c,
                   <<"find_element", "click">>, "nowait", dom))

ElementUtils_click(dom, stale) ==
    Swallowed(
        IF driver_find_element(dom) # NoExc
        THEN ElOut("False", <<>>, driver_find_element(dom), <<"find_element">>, "nowait", dom)
        ELSE LET c == Element_click(dom, stale # "no") IN
             ElOut(IF c = NoExc THEN "True" ELSE "False", <<>>, c,
                   <<"find_element", "click">>, "nowait", dom),
        "False", <<>>)

ElementUtils_type_text(dom, text, stale) ==
    Swallowed(
        IF driver_find_element(dom) # NoExc
        THEN ElOut("False", <<>>, driver_find_element(dom), <<"find_element">>, "nowait", dom)
        ELSE LET c == Element_clear(dom, stale = "first") IN
             IF c.exc # NoExc
             THEN ElOut("False", <<>>, c.exc, <<"find_element", "clear">>, "nowait", c.dom)
             ELSE LET k == Element_send_keys(c.dom, text, stale = "second") IN
                  ElOut(IF k.exc = NoExc THEN "True" ELSE "False", <<>>, k.exc,
                        <<"find_element", "clear", "send_keys">>, "nowait", k.dom),
        "False", <<>>)

ElementUtils_get_text(dom, stale) ==
    Swallowed(
        IF driver_find_element(dom) # NoExc
        THEN ElOut("str", <<>>, driver_find_element(dom), <<"find_element">>, "nowait", dom)
        ELSE LET t == Element_text(dom, stale # "no") IN
             ElOut("str", t.val, t.exc, <<"find_element", "text">>, "nowait", dom),
        "str", <<>>)

ElementUtils_get_attribute(dom, attribute, stale) ==
    Swallowed(
        IF driver_find_element(dom) # NoExc
        THEN ElOut("str", <<>>, driver_find_element(dom), <<"find_element">>, "nowait", dom)
        ELSE LET a == Element_get_attribute(dom, attribute, stale # "no") IN
             ElOut(a.ret, a.val, a.exc, <<"find_element", "get_attribute">>, "nowait", dom),
        "str", <<>>)

ElementUtils_clear_field(dom, stale) ==
    Swallowed(
        IF driver_find_element(dom) # NoExc
        THEN ElOut("False", <<>>, driver_find_element(dom), <<"find_element">>, "nowait", dom)
        ELSE LET c == Element_clear(dom, stale # "no") IN
             ElOut(IF c.exc = NoExc THEN "True" ELSE "False", <<>>, c.exc,
                   <<"find_element", "clear">>, "nowait", c.dom),
        "False", <<>>)

\* ---- BasePage: calls self.wait_utils.<name>(locator), then the element ----

\* Looking a method up on the WaitUtils instance: only the methods the class
\* defines exist.
WaitUtils_getattr(name) ==
    IF name \in WaitMethods THEN NoExc ELSE "AttributeError"

\* A whole call of a WaitUtils method, where `dom` is what the locator matches
\* when the call ends: the condition was found satisfied, or the wait timed out.
WaitUtils_call(method, dom) ==
    LET v == ExpectedCondition(WaitCondition(method), dom)
        u == IF v.exc = NoExc /\ Truthy(v.val)
             THEN [exc |-> NoExc, val |-> v.val]
             ELSE [exc |-> "TimeoutException", val |-> "False"]
    IN WaitUtils_return(method, u)

\* element = self.wait_utils.<name>(locator)
BasePage_resolve(name, dom) ==
    IF WaitUtils_getattr(name) # NoExc
    THEN [exc |-> WaitUtils_getattr(name), el |-> None, trace |-> <<>>, waited |-> "nowait"]
    ELSE [exc |-> NoExc, el |-> WaitUtils_call(name, dom).ret, trace |-> <<name>>,
          waited |-> WaitUtils_call(name, dom).ret]

\* <None>.<method>(): the wait returned None and the body dereferences it.
NoneDeref == "AttributeError"

BasePage_find(dom) ==
    Propagated(
        LET r == BasePage_resolve("wait_for_element_presence", dom) IN
        ElOut(r.el, <<>>, r.exc, r.trace, r.waited, dom))

BasePage_click(dom, stale) ==
    Propagated(
        LET r == BasePage_resolve("wait_for_element_clickable", dom) IN
        IF r.exc # NoExc THEN ElOut(None, <<>>, r.exc, r.trace, r.waited, dom)
        ELSE IF r.el = None THEN ElOut(None, <<>>, NoneDeref, r.trace, r.waited, dom)
        ELSE ElOut(None, <<>>, Element_click(dom, stale # "no"),
                   Append(r.trace, "click"), r.waited, dom))

BasePage_type(dom, text, clear_first, stale) ==
    Propagated(
        LET r == BasePage_resolve("wait_for_element_presence", dom) IN
        IF r.exc # NoExc THEN ElOut(None, <<>>, r.exc, r.trace, r.waited, dom)
        ELSE IF r.el = None THEN ElOut(None, <<>>, NoneDeref, r.trace, r.waited, dom)
        ELSE LET c == IF clear_first THEN Element_clear(dom, stale = "first")
                      ELSE [exc |-> NoExc, dom |-> dom]
                 t == IF clear_first THEN Append(r.trace, "clear") ELSE r.trace
             IN IF c.exc # NoExc THEN ElOut(None, <<>>, c.exc, t, r.waited, c.dom)
                ELSE LET k == Element_send_keys(c.dom, text, stale = "second") IN
                     ElOut(None, <<>>, k.exc, Append(t, "send_keys"), r.waited, k.dom))

BasePage_clear(dom, stale) ==
    Propagated(
        LET r == BasePage_resolve("wait_for_element_presence", dom) IN
        IF r.exc # NoExc THEN ElOut(None, <<>>, r.exc, r.trace, r.waited, dom)
        ELSE IF r.el = None THEN ElOut(None, <<>>, NoneDeref, r.trace, r.waited, dom)
        ELSE LET c == Element_clear(dom, stale # "no") IN
             ElOut(None, <<>>, c.exc, Append(r.trace, "clear"), r.waited, c.dom))

BasePage_get_text(dom, stale) ==
    Swallowed(
        LET f == BasePage_find(dom) IN
        IF f.raised # NoExc THEN ElOut("str", <<>>, f.raised, f.trace, f.waited, dom)
        ELSE IF f.ret = None THEN ElOut("str", <<>>, NoneDeref, f.trace, f.waited, dom)
        ELSE LET t == Element_text(dom, stale # "no") IN
             ElOut("str", t.val, t.exc, Append(f.trace, "text"), f.waited, dom),
        "str", <<>>)

\* try: self.wait_utils.wait_for_element_visibility(locator, timeout=timeout);
\* return True / except Exception: return False
BasePage_is_visible(dom) ==
    Swallowed(
        LET r == BasePage_resolve("wait_for_element_visibility", dom) IN
        ElOut(IF r.exc = NoExc THEN "True" ELSE "False", <<>>, r.exc, r.trace, r.waited, dom),
        "False", <<>>)

\* return element.get_attribute(attribute) or ""
BasePage_get_attribute(dom, attribute, stale) ==
    Swallowed(
        LET f == BasePage_find(dom) IN
        IF f.raised # NoExc THEN ElOut("str", <<>>, f.raised, f.trace, f.waited, dom)
        ELSE IF f.ret = None THEN ElOut("str", <<>>, NoneDeref, f.trace, f.waited, dom)
        ELSE LET a == Element_get_attribute(dom, attribute, stale # "no") IN
             ElOut("str", a.val, a.exc, Append(f.trace, "get_attribute"), f.waited, dom),
        "str", <<>>)

\* ---- LoginPage.click_login_button: a wait whose result is dropped, then
\* ElementUtils.click, which looks the button up again ----

\* click_login_button without its wait.
LoginPage_click_login_button_no_wait(dom, stale) ==
    [ElementUtils_click(dom, stale) EXCEPT !.ret = None]

LoginPage_click_login_button(dom, stale) ==
    LET w == WaitUtils_call("wait_for_clickable", dom)
        c == ElementUtils_click(dom, stale)
    IN [c EXCEPT !.ret = None, !.trace = <<"wait_for_clickable">> \o c.trace,
                 !.waited = w.ret]

\* ---- The calls a test makes on one locator ----

StaleAt == {"no", "first", "second"}

\* What the model remembers of the most recent wrapper call.
ElCall(cls, op, text, flag, attribute, stale, pre, out) ==
    [cls |-> cls, op |-> op, text |-> text, flag |-> flag, attribute |-> attribute,
     stale |-> stale, pre |-> pre, ret |-> out.ret, txt |-> out.txt, exc |-> out.exc,
     raised |-> out.raised, trace |-> out.trace, waited |-> out.waited, post |-> out.dom]

ElAbsent ==
    [present |-> FALSE, displayed |-> FALSE, enabled |-> FALSE, value |-> <<>>,
     text |-> <<>>]

ElNoCall ==
    [cls |-> "none", op |-> "none", text |-> <<>>, flag |-> FALSE, attribute |-> "value",
     stale |-> "no", pre |-> ElAbsent, ret |-> None, txt |-> <<>>, exc |-> NoExc,
     raised |-> NoExc, trace |-> <<>>, waited |-> "nowait", post |-> ElAbsent]

ElInit ==
    /\ elDom \in ElementNodes
    /\ elLast = ElNoCall

ElIdle ==
    /\ elDom = ElAbsent
    /\ elLast = ElNoCall

ElDo(cls, op, text, flag, attribute, stale, out) ==
    /\ elDom' = out.dom
    /\ elLast' = ElCall(cls, op, text, flag, attribute, stale, elDom, out)
    /\ ElFrame

ElClick ==
    \E stale \in {"no", "first"} :
        ElDo("ElementUtils", "click", <<>>, FALSE, "value", stale,
             ElementUtils_click(elDom, stale))

ElTypeText ==
    \E text \in Strings(MaxLen), stale \in StaleAt :
        ElDo("ElementUtils", "type_text", text, TRUE, "value", stale,
             ElementUtils_type_text(elDom, text, stale))

ElGetText ==
    \E stale \in {"no", "first"} :
        ElDo("ElementUtils", "get_text", <<>>, FALSE, "value", stale,
             ElementUtils_get_text(elDom, stale))

ElGetAttribute ==
    \E attribute \in Attributes, stale \in {"no", "first"} :
        ElDo("ElementUtils", "get_attribute", <<>>, FALSE, attribute, stale,
             ElementUtils_get_attribute(elDom, attribute, stale))

ElClearField ==
    \E stale \in {"no", "first"} :
        ElDo("ElementUtils", "clear_field", <<>>, FALSE, "value", stale,
             ElementUtils_clear_field(elDom, stale))

BpFind ==
    ElDo("BasePage", "find", <<>>, FALSE, "value", "no", BasePage_find(elDom))

BpClick ==
    \E stale \in {"no", "first"} :
        ElDo("BasePage", "click", <<>>, FALSE, "value", stale,
             BasePage_click(elDom, stale))

BpType ==
    \E text \in Strings(MaxLen), clear_first \in BOOLEAN, stale \in StaleAt :
        ElDo("BasePage", "type", text, clear_first, "value", stale,
             BasePage_type(elDom, text, clear_first, stale))

BpClear ==
    \E stale \in {"no", "first"} :
        ElDo("BasePage", "clear", <<>>, FALSE, "value", stale,
             BasePage_clear(elDom, stale))

BpGetText ==
    \E stale \in {"no", "first"} :
        ElDo("BasePage", "get_text", <<>>, FALSE, "value", stale,
             BasePage_get_text(elDom, stale))

BpGetAttribute ==
    \E attribute \in Attributes, stale \in {"no", "first"} :
        ElDo("BasePage", "get_attribute", <<>>, FALSE, attribute, stale,
             BasePage_get_attribute(elDom, attribute, stale))

BpIsVisible ==
    ElDo("BasePage", "is_visible", <<>>, FALSE, "value", "no", BasePage_is_visible(elDom))

\* While click_login_button waits, the page may change what the locator
\* matches; a button that is clickable at once is returned at once.
LpClickLoginButton ==
    \E d \in ElementNodes, stale \in {"no", "first"} :
        /\ Truthy(WaitUtils_call("wait_for_clickable", elDom).ret) => d = elDom
        /\ d.present => (d.value = elDom.value /\ d.text = elDom.text)
        /\ ElDo("LoginPage", "click_login_button", <<>>, FALSE, "value", stale,
                LoginPage_click_login_button(d, stale))

\* The page changes what the locator matches between two calls of the test.
ElEnvChange ==
    /\ \E d \in ElementNodes : d # elDom /\ elDom' = d
    /\ elLast' = [ElNoCall EXCEPT !.op = "env"]
    /\ ElFrame

ElNext ==
    \/ ElClick
    \/ ElTypeText
    \/ ElGetText
    \/ ElGetAttribute
    \/ ElClearField
    \/ BpFind
    \/ BpClick
    \/ BpType
    \/ BpClear
    \/ BpGetText
    \/ BpGetAttribute
    \/ BpIsVisible
    \/ LpClickLoginButton
    \/ ElEnvChange

(***************************************************************************)
(* DropdownUtils (src/utilities/dropdown_utils.py)                         *)
(***************************************************************************)

\* The largest number of options of a select control.
MaxOptions == 2

\* The text content of an option as written in the page, and the texts a test
\* asks for.  " a " is "a" with surrounding white space.
RawTexts == {"a", " a ", "b"}
AskedTexts == {"a", " a ", "b"}

\* normalize-space(.) in the XPath of select_by_visible_text, and the white
\* space trimming of option.text.
Normalize(raw) == IF raw = " a " THEN "a" ELSE raw

\* " " in text
HasSpace(text) == text = " a "

Options == [raw : RawTexts, enabled : BOOLEAN, selected : BOOLEAN]

\* A select control: single-select controls hold at most one selected option.
SelectElements ==
    {e \in [attached : BOOLEAN, multiple : BOOLEAN,
            options : UNION {[1..k -> Options] : k \in 1..MaxOptions}] :
        e.multiple \/ Cardinality({i \in DOMAIN e.options : e.options[i].selected}) <= 1}

\* Select(element): reads the tag name of the element; a stale handle raises.
Select_init(el) ==
    IF el.attached THEN NoExc ELSE "StaleElementReferenceException"

\* option.click() inside a select: the option becomes selected; in a
\* single-select control every other option is deselected.
Option_click(el, i) ==
    [el EXCEPT !.options =
        [j \in DOMAIN el.options |->
            [el.options[j] EXCEPT !.selected =
                IF j = i THEN TRUE ELSE (el.multiple /\ el.options[j].selected)]]]

\* Select._set_selected(option): click unless already selected; a disabled
\* option cannot be selected.
Select_set_selected(el, i) ==
    IF el.options[i].selected THEN [exc |-> NoExc, el |-> el, clicks |-> 0]
    ELSE IF ~el.options[i].enabled
    THEN [exc |-> "NotImplementedError", el |-> el, clicks |-> 0]
    ELSE [exc |-> NoExc, el |-> Option_click(el, i), clicks |-> 1]

\* The options select_by_visible_text finds for a text, in document order:
\* those whose normalized content equals it; if there is none and the text
\* holds a space, those whose rendered text equals it.
Select_matches(el, text) ==
    LET byXpath == {i \in DOMAIN el.options : Normalize(el.options[i].raw) = text}
        byText == {i \in DOMAIN el.options : text = Normalize(el.options[i].raw)}
    IN IF byXpath = {} /\ HasSpace(text) THEN byText ELSE byXpath

RECURSIVE Select_select_from(_, _, _)
\* The loop of select_by_visible_text over the matching options from index i
\* on: select each; a single-select control returns after the first.
Select_select_from(el, matches, i) ==
    IF i > Len(el.options) THEN [exc |-> NoExc, el |-> el, clicks |-> 0]
    ELSE IF i \notin matches THEN Select_select_from(el, matches, i + 1)
    ELSE LET r == Select_set_selected(el, i) IN
         IF r.exc # NoExc \/ ~el.multiple THEN r
         ELSE LET rest == Select_select_from(r.el, matches, i + 1) IN
              [rest EXCEPT !.clicks = r.clicks + rest.clicks]

\* Select.select_by_visible_text(text); rerender: the page re-renders on the
\* selection, which detaches the control from the handle.
Select_select_by_visible_text(el, text, rerender) ==
    IF Select_matches(el, text) = {}
    THEN [exc |-> "NoSuchElementException", el |-> el, clicks |-> 0]
    ELSE LET r == Select_select_from(el, Select_matches(el, text), 1) IN
         [r EXCEPT !.el = [r.el EXCEPT !.attached = ~(rerender /\ r.clicks > 0)]]

\* Select.first_selected_option
Select_first_selected_option(el) ==
    LET sel == {i \in DOMAIN el.options : el.options[i].selected} IN
    IF sel = {} THEN [exc |-> "NoSuchElementException", i |-> 0]
    ELSE [exc |-> NoExc, i |-> CHOOSE i \in sel : \A j \in sel : i <= j]

\* The outcome of a DropdownUtils call: ret is a Python bool or None by name,
\* or "str" when a string is returned, which txt then holds.
DdOut(ret, txt, clicks, el) == [ret |-> ret, txt |-> txt, clicks |-> clicks, el |-> el]

\* select_by_visible_text that reports success without selecting anything.
select_by_visible_text_no_click(h, el, text, rerender) ==
    IF h = None THEN DdOut("False", "", 0, el)
    ELSE IF Select_init(el) # NoExc THEN DdOut("False", "", 0, el)
    ELSE IF Select_matches(el, text) = {} THEN DdOut("False", "", 0, el)
    ELSE DdOut("True", "", 0, el)

select_by_visible_text(h, el, text, rerender) ==
    IF h = None THEN DdOut("False", "", 0, el)
    ELSE IF Select_init(el) # NoExc THEN DdOut("False", "", 0, el)
    ELSE LET r == Select_select_by_visible_text(el, text, rerender) IN
         IF r.exc # NoExc THEN DdOut("False", "", r.clicks, r.el)
         ELSE DdOut("True", "", r.clicks, r.el)

get_selected_option_text(h, el) ==
    IF h = None THEN DdOut(None, "", 0, el)
    ELSE IF Select_init(el) # NoExc THEN DdOut(None, "", 0, el)
    ELSE LET f == Select_first_selected_option(el) IN
         IF f.exc # NoExc THEN DdOut(None, "", 0, el)
         ELSE DdOut("str", Normalize(el.options[f.i].raw), 0, el)

\* Select.deselect_all(): only for a multi-select control.
deselect_all(h, el) ==
    IF h = None THEN DdOut("False", "", 0, el)
    ELSE IF Select_init(el) # NoExc THEN DdOut("False", "", 0, el)
    ELSE IF ~el.multiple THEN DdOut("False", "", 0, el)
    ELSE DdOut("True", "",
               Cardinality({i \in DOMAIN el.options : el.options[i].selected}),
               [el EXCEPT !.options =
                   [j \in DOMAIN el.options |-> [el.options[j] EXCEPT !.selected = FALSE]]])

DdCall(op, h, text, out) ==
    [op |-> op, h |-> h, text |-> text, ret |-> out.ret, txt |-> out.txt,
     clicks |-> out.clicks]

DdNoCall == [op |-> "none", h |-> None, text |-> "", ret |-> None, txt |-> "", clicks |-> 0]

DdNoElement ==
    [attached |-> TRUE, multiple |-> FALSE,
     options |-> <<[raw |-> "a", enabled |-> TRUE, selected |-> TRUE]>>]

\* A handle is attached to its control when the test obtains it.
DdInit ==
    /\ ddEl \in {e \in SelectElements : e.attached}
    /\ ddLast = DdNoCall
    /\ ddPrev = DdNoCall

DdIdle ==
    /\ ddEl = DdNoElement
    /\ ddLast = DdNoCall
    /\ ddPrev = DdNoCall

DdDo(op, h, text, out) ==
    /\ ddEl' = out.el
    /\ ddLast' = DdCall(op, h, text, out)
    /\ ddPrev' = ddLast
    /\ DdFrame

DdSelectByVisibleText ==
    \E h \in Handles, text \in AskedTexts, rr \in BOOLEAN :
        DdDo("select_by_visible_text", h, text, select_by_visible_text(h, ddEl, text, rr))

DdGetSelectedOptionText ==
    \E h \in Handles :
        DdDo("get_selected_option_text", h, "", get_selected_option_text(h, ddEl))

DdDeselectAll ==
    \E h \in Handles : DdDo("deselect_all", h, "", deselect_all(h, ddEl))

\* Between two calls of the test the user picks an option, or a re-render
\* detaches the control from the handle.
DdEnvChange ==
    /\ \/ \E i \in DOMAIN ddEl.options :
             ddEl' = IF ddEl.multiple /\ ddEl.options[i].selected
                     THEN [ddEl EXCEPT !.options[i].selected = FALSE]
                     ELSE Option_click(ddEl, i)
       \/ ddEl' = [ddEl EXCEPT !.attached = FALSE]
    /\ ddEl' # ddEl
    /\ ddLast' = [DdNoCall EXCEPT !.op = "env"]
    /\ ddPrev' = DdNoCall
    /\ DdFrame

DdNext ==
    \/ DdSelectByVisibleText
    \/ DdGetSelectedOptionText
    \/ DdDeselectAll
    \/ DdEnvChange

(***************************************************************************)
(* RegisterPage.is_success_message_displayed and get_success_message       *)
(* (src/pages/register_page.py)                                            *)
(***************************************************************************)

\* The deadline of the waits of the success check, in polling intervals.
SuccessTimeout == 1

\* What the driver answers about the page after a registration:
\*   url      "account/success" in driver.current_url
\*   msg      the first element matching SUCCESS_MESSAGE_CONTAINER
\*   others   a later element matching SUCCESS_MESSAGE_CONTAINER is displayed
\*   keyword  the page source holds one of the success keywords
\*   alt      the elements the alternative locators match
\* An element matching SUCCESS_MESSAGE_CONTAINER holds a keyword in its text,
\* so the page source holds it too.
SuccessPages ==
    {pg \in [url : BOOLEAN, msg : {"absent", "hidden", "visible"}, others : BOOLEAN,
             keyword : BOOLEAN, alt : {"absent", "hidden", "visible"}] :
        /\ pg.msg # "absent" => pg.keyword
        /\ pg.others => pg.msg # "absent"}

\* The node SUCCESS_MESSAGE_CONTAINER resolves to (first match).
SuccessMessageNode(pg) ==
    [present |-> pg.msg # "absent", displayed |-> pg.msg = "visible",
     enabled |-> pg.msg # "absent"]

\* The text of a displayed success message element.
SuccessText == "Your Account Has Been Created!"

\* A URL wait that keeps polling after the URL matched.
WebDriverWait_until_url_keeps_polling(pg, elapsed, limit, err) ==
    IF err
    THEN [done |-> TRUE, exc |-> "WebDriverException", val |-> "False", elapsed |-> elapsed]
    ELSE IF elapsed + 1 > limit
    THEN [done |-> TRUE, exc |-> "TimeoutException", val |-> "False", elapsed |-> elapsed + 1]
    ELSE [done |-> FALSE, exc |-> NoExc, val |-> "False", elapsed |-> elapsed + 1]

\* One iteration of wait.until(lambda driver: "account/success" in
\* driver.current_url), with the loop of WebDriverWait.until.
WebDriverWait_until_url(pg, elapsed, limit, err) ==
    IF err
    THEN [done |-> TRUE, exc |-> "WebDriverException", val |-> "False", elapsed |-> elapsed]
    ELSE IF pg.url
    THEN [done |-> TRUE, exc |-> NoExc, val |-> "True", elapsed |-> elapsed]
    ELSE IF elapsed + 1 > limit
    THEN [done |-> TRUE, exc |-> "TimeoutException", val |-> "False", elapsed |-> elapsed + 1]
    ELSE [done |-> FALSE, exc |-> NoExc, val |-> "False", elapsed |-> elapsed + 1]

\* Strategy 3: any(success_indicators.values()) over current_url and page_source.
SuccessIndicators(pg) == pg.url \/ pg.keyword

\* Alternative locators accepted without the is_displayed check.
AlternativeLocators_found(pg) == pg.alt # "absent"

\* Strategy 4: some element of an alternative locator is displayed.
AlternativeLocators(pg) == pg.alt = "visible"

\* The signals of the cascade, by their position in it.
Strategies == 1..4

SpRead(sig, pos) == [sig |-> sig, pos |-> pos]

\* The reads of the driver made so far by the running call, a repeated poll of
\* the same signal with the same answer written once.
SpNote(reads, sig, pos) ==
    IF reads # <<>> /\ reads[Len(reads)] = SpRead(sig, pos) THEN reads
    ELSE Append(reads, SpRead(sig, pos))

SpNoRet == [ret |-> None, raised |-> NoExc, exc |-> NoExc]
SpNoMsg == [called |-> FALSE, txt |-> "", exc |-> NoExc, after |-> None]

SpInit ==
    /\ spPage \in SuccessPages
    /\ spPc = "idle"
    /\ spElapsed = 0
    /\ spReads = <<>>
    /\ spRet = SpNoRet
    /\ spFresh = FALSE
    /\ spMsg = SpNoMsg

SpIdle ==
    /\ spPage = [url |-> FALSE, msg |-> "absent", others |-> FALSE, keyword |-> FALSE,
                 alt |-> "absent"]
    /\ spPc = "idle"
    /\ spElapsed = 0
    /\ spReads = <<>>
    /\ spRet = SpNoRet
    /\ spFresh = FALSE
    /\ spMsg = SpNoMsg

\* is_success_message_displayed returns: return True, return False, or the
\* outer except Exception: return False.
SpReturn(ret, exc, reads) ==
    /\ spPc' = "done"
    /\ spRet' = [ret |-> ret, raised |-> NoExc, exc |-> exc]
    /\ spReads' = reads
    /\ spFresh' = TRUE
    /\ spElapsed' = 0

\* The cascade moves on to the next strategy.
SpGoto(pc, reads) ==
    /\ spPc' = pc
    /\ spReads' = reads
    /\ spElapsed' = 0
    /\ UNCHANGED <<spRet, spFresh>>

\* is_success_message_displayed is entered.
SpStart ==
    /\ spPc \in {"idle", "done"}
    /\ spPc' = "strategy1"
    /\ spElapsed' = 0
    /\ spReads' = <<>>
    /\ spRet' = SpNoRet
    /\ spFresh' = FALSE
    /\ spMsg' = SpNoMsg
    /\ UNCHANGED spPage
    /\ SpFrame

\* Strategy 1, one poll of the URL.
SpStrategy1 ==
    /\ spPc = "strategy1"
    /\ \E err \in BOOLEAN :
          LET u == WebDriverWait_until_url(spPage, spElapsed, SuccessTimeout, err)
              reads == IF err THEN spReads ELSE SpNote(spReads, 1, spPage.url)
          IN IF ~u.done
             THEN /\ spElapsed' = u.elapsed
                  /\ spReads' = reads
                  /\ UNCHANGED <<spPc, spRet, spFresh>>
             ELSE IF u.exc = NoExc THEN SpReturn("True", NoExc, reads)
             ELSE IF u.exc = "TimeoutException" THEN SpGoto("strategy2", reads)
             ELSE SpReturn("False", u.exc, reads)
    /\ UNCHANGED <<spPage, spMsg>>
    /\ SpFrame

\* Strategy 2, one poll of the visibility of the success message element.
SpStrategy2 ==
    /\ spPc = "strategy2"
    /\ \E err \in BOOLEAN :
          LET u == WebDriverWait_until("visibility_of_element_located",
                                       SuccessMessageNode(spPage), spElapsed,
                                       SuccessTimeout, err)
              reads == IF err THEN spReads
                       ELSE SpNote(spReads, 2, spPage.msg = "visible")
          IN IF ~u.done
             THEN /\ spElapsed' = u.elapsed
                  /\ spReads' = reads
                  /\ UNCHANGED <<spPc, spRet, spFresh>>
             ELSE IF u.exc = NoExc THEN SpReturn("True", NoExc, reads)
             ELSE IF u.exc = "TimeoutException" THEN SpGoto("strategy3", reads)
             ELSE SpReturn("False", u.exc, reads)
    /\ UNCHANGED <<spPage, spMsg>>
    /\ SpFrame

\* Strategy 3: current_url, page_source and title are read once.
SpStrategy3 ==
    /\ spPc = "strategy3"
    /\ \E err \in BOOLEAN :
          IF err THEN SpReturn("False", "WebDriverException", spReads)
          ELSE IF SuccessIndicators(spPage)
          THEN SpReturn("True", NoExc, SpNote(spReads, 3, TRUE))
          ELSE SpGoto("strategy4", SpNote(spReads, 3, FALSE))
    /\ UNCHANGED <<spPage, spMsg>>
    /\ SpFrame

\* Strategy 4: the alternative locators; an error of a lookup is skipped.
SpStrategy4 ==
    /\ spPc = "strategy4"
    /\ \E err \in BOOLEAN :
          IF err THEN SpReturn("False", "WebDriverException", spReads)
          ELSE IF AlternativeLocators(spPage)
          THEN SpReturn("True", NoExc, SpNote(spReads, 4, TRUE))
          ELSE SpReturn("False", NoExc, SpNote(spReads, 4, FALSE))
    /\ UNCHANGED <<spPage, spMsg>>
    /\ SpFrame

\* get_success_message without the find_elements fallback.
get_success_message_no_fallback(pg, err) ==
    IF err THEN [txt |-> "", exc |-> "WebDriverException"]
    ELSE IF pg.msg = "visible" THEN [txt |-> SuccessText, exc |-> NoExc]
    ELSE [txt |-> "", exc |-> "TimeoutException"]

\* get_success_message on a page that stays as it is during the call: the two
\* waits return the first match when it is displayed; on their timeout the
\* first displayed match of find_elements is read; any error gives "".
get_success_message(pg, err) ==
    IF err THEN [txt |-> "", exc |-> "WebDriverException"]
    ELSE IF pg.msg = "visible" THEN [txt |-> SuccessText, exc |-> NoExc]
    ELSE IF pg.others THEN [txt |-> SuccessText, exc |-> "TimeoutException"]
    ELSE [txt |-> "", exc |-> "TimeoutException"]

SpGetSuccessMessage ==
    /\ spPc \in {"idle", "done"}
    /\ \E err \in BOOLEAN :
          LET r == get_success_message(spPage, err) IN
          spMsg' = [called |-> TRUE, txt |-> r.txt, exc |-> r.exc,
                    after |-> IF spFresh THEN spRet.ret ELSE None]
    /\ spFresh' = FALSE
    /\ UNCHANGED <<spPage, spPc, spElapsed, spReads, spRet>>
    /\ SpFrame

\* The page changes, at any moment.
SpEnvChange ==
    /\ \E pg \in SuccessPages : pg # spPage /\ spPage' = pg
    /\ spFresh' = FALSE
    /\ spMsg' = SpNoMsg
    /\ UNCHANGED <<spPc, spElapsed, spReads, spRet>>
    /\ SpFrame

SpNext ==
    \/ SpStart
    \/ SpStrategy1
    \/ SpStrategy2
    \/ SpStrategy3
    \/ SpStrategy4
    \/ SpGetSuccessMessage
    \/ SpEnvChange

(***************************************************************************)
(* Flows: RegisterFlow, LoginFlow, AccountFlow (src/flows) over the page   *)
(* objects (src/pages)                                                     *)
(***************************************************************************)

\* The inputs of the registration form and of the account form.
RegisterFields ==
    {"firstname", "lastname", "email", "telephone", "fax", "company", "address",
     "city", "postcode", "loginname", "password", "confirm"}
OptionalFields == {"telephone", "fax", "company"}
AccountFields == {"first_name", "last_name", "email", "telephone", "company"}

\* What the storefront requires of a registration: every input but the
\* optional ones, a country, a zone and the accepted terms.
StorefrontAccepts(br) ==
    /\ (RegisterFields \ OptionalFields) \subseteq br.filled
    /\ br.country /\ br.zone /\ br.terms

\* The storefront a flow runs against.
\*   fault   what is wrong with the page: nothing, the form inputs are not
\*           found or not interactable, the dropdowns are not, the account page
\*           elements are not, the login error element is not there yet, or it
\*           goes stale when read, or the driver refuses to delete the cookies
\*   prompt  what the browser shows after a registration was submitted
\*   noise   a page other than the success page shows a contentpanel element
\*   stray   the first button of the page shown is clickable, is not a Save
\*           button and leads to another page
Faults ==
    {"none", "inputs", "dropdowns", "account", "error_absent", "error_stale", "cookies"}
Storefronts ==
    [fault : Faults, prompt : {"none", "alert", "modal"}, noise : BOOLEAN,
     stray : BOOLEAN]

Healthy(env) == env.fault = "none"

\* The browser session at the start of a test: open, on a page of the
\* storefront.
FreshBrowser ==
    [session |-> TRUE, page |-> "site", cookies |-> TRUE, filled |-> {},
     country |-> FALSE, zone |-> FALSE, terms |-> FALSE, newsletter |-> "none",
     prompt |-> "none"]

\* driver.get(register_url): a fresh registration form.
RegisterForm(br) ==
    [br EXCEPT !.page = "register", !.filled = {}, !.country = FALSE, !.zone = FALSE,
               !.terms = FALSE, !.newsletter = "none", !.prompt = "none"]

FlStep(op) == [op |-> op, f |-> ""]
NoFields == [given |-> {}, blank |-> {}]
FlEnter(f) == [op |-> "enter", f |-> f]
FlTypeAndTab(f) == [op |-> "type_and_tab", f |-> f]
FlSendKey(f) == [op |-> "send_key", f |-> f]
FlEnterAccount(f) == [op |-> "enter_account", f |-> f]

\* if value: self.register_page.enter_...(value)
FlIfGiven(args, f) == IF f \in args.given THEN <<FlEnter(f)>> ELSE <<>>

\* _fill_mandatory_fields that enters the optional fields whatever their value.
RegisterFlow_fill_mandatory_fields_unconditional(args) ==
    <<FlEnter("firstname"), FlEnter("lastname"), FlEnter("email"),
      FlEnter("telephone"), FlEnter("fax"), FlEnter("company"),
      FlEnter("address"), FlEnter("city"),
      FlStep("select_country"), FlStep("select_zone"), FlEnter("postcode"),
      FlEnter("loginname"), FlEnter("password"), FlEnter("confirm")>>

\* RegisterFlow._fill_mandatory_fields
RegisterFlow_fill_mandatory_fields(args) ==
    <<FlEnter("firstname"), FlEnter("lastname"), FlEnter("email")>>
    \o FlIfGiven(args, "telephone") \o FlIfGiven(args, "fax") \o FlIfGiven(args, "company")
    \o <<FlEnter("address"), FlEnter("city"),
         FlStep("select_country"), FlStep("select_zone"), FlEnter("postcode"),
         FlEnter("loginname"), FlEnter("password"), FlEnter("confirm")>>

\* _submit_registration that leaves the terms checkbox alone.
RegisterFlow_submit_registration_no_terms(newsletter, accept_terms, use_keyboard) ==
    <<FlStep(IF newsletter THEN "select_newsletter_yes" ELSE "select_newsletter_no")>>
    \o <<FlStep(IF use_keyboard THEN "press_enter" ELSE "click_continue_button")>>

\* RegisterFlow._submit_registration
RegisterFlow_submit_registration(newsletter, accept_terms, use_keyboard) ==
    <<FlStep(IF newsletter THEN "select_newsletter_yes" ELSE "select_newsletter_no")>>
    \o (IF accept_terms THEN <<FlStep("check_terms_and_conditions")>> ELSE <<>>)
    \o <<FlStep(IF use_keyboard THEN "press_enter" ELSE "click_continue_button")>>

\* The arguments a flow passes on to _fill_mandatory_fields.
FlPass(args, fields) == [args EXCEPT !.given = args.given \cap fields]

RegisterFlow_verify_registering_with_mandatory_fields(args) ==
    <<FlStep("navigate_to_register_page")>>
    \o RegisterFlow_fill_mandatory_fields(FlPass(args, {"telephone"}))
    \o RegisterFlow_submit_registration(FALSE, TRUE, FALSE)
    \o <<FlStep("handle_save_address_alert"), FlStep("is_success_message_displayed"),
         FlStep("quit_if_success"), FlStep("return_success")>>

RegisterFlow_verify_registering_with_newsletter_subscription(args) ==
    <<FlStep("navigate_to_register_page")>>
    \o RegisterFlow_fill_mandatory_fields(args)
    \o RegisterFlow_submit_registration(TRUE, TRUE, FALSE)
    \o <<FlStep("is_success_message_displayed"), FlStep("return_success")>>

\* The cookie scenario with the cookies deleted after the form is filled.
RegisterFlow_verify_registering_after_deleting_session_cookies_late(args) ==
    <<FlStep("navigate_to_register_page"), FlStep("navigate_to_register_page")>>
    \o RegisterFlow_fill_mandatory_fields(FlPass(args, {"telephone"}))
    \o <<FlStep("delete_all_cookies")>>
    \o RegisterFlow_submit_registration(FALSE, TRUE, FALSE)
    \o <<FlStep("handle_save_address_alert"), FlStep("is_success_message_displayed"),
         FlStep("return_success")>>

RegisterFlow_verify_registering_after_deleting_session_cookies(args) ==
    <<FlStep("navigate_to_register_page"), FlStep("delete_all_cookies"),
      FlStep("navigate_to_register_page")>>
    \o RegisterFlow_fill_mandatory_fields(FlPass(args, {"telephone"}))
    \o RegisterFlow_submit_registration(FALSE, TRUE, FALSE)
    \o <<FlStep("handle_save_address_alert"), FlStep("is_success_message_displayed"),
         FlStep("return_success")>>

\* if value: type_and_tab(find_element(...), value) else: send_key(find_element(...), "Tab")
FlTabOver(args, f) == IF f \in args.given THEN <<FlTypeAndTab(f)>> ELSE <<FlSendKey(f)>>

\* The keyboard scenario with the zone selected before the country.
RegisterFlow_verify_registering_using_keyboard_keys_zone_first(args) ==
    <<FlStep("navigate_to_register_page"), FlTypeAndTab("firstname"),
      FlTypeAndTab("lastname"), FlTypeAndTab("email"), FlTypeAndTab("telephone")>>
    \o FlTabOver(args, "fax") \o FlTabOver(args, "company")
    \o <<FlTypeAndTab("address"), FlTypeAndTab("city"),
         FlStep("select_zone"), FlStep("select_country"), FlTypeAndTab("postcode"),
         FlTypeAndTab("loginname"), FlTypeAndTab("password"), FlTypeAndTab("confirm")>>
    \o RegisterFlow_submit_registration(FALSE, TRUE, TRUE)
    \o <<FlStep("is_success_message_displayed"), FlStep("return_success")>>

RegisterFlow_verify_registering_using_keyboard_keys(args) ==
    <<FlStep("navigate_to_register_page"), FlTypeAndTab("firstname"),
      FlTypeAndTab("lastname"), FlTypeAndTab("email"), FlTypeAndTab("telephone")>>
    \o FlTabOver(args, "fax") \o FlTabOver(args, "company")
    \o <<FlTypeAndTab("address"), FlTypeAndTab("city"),
         FlStep("select_country"), FlStep("select_zone"), FlTypeAndTab("postcode"),
         FlTypeAndTab("loginname"), FlTypeAndTab("password"), FlTypeAndTab("confirm")>>
    \o RegisterFlow_submit_registration(FALSE, TRUE, TRUE)
    \o <<FlStep("is_success_message_displayed"), FlStep("return_success")>>

\* def _fill_mandatory_fields(self, ...): the parameters without a default,
\* in their order.
FillMandatoryParams ==
    <<"firstname", "lastname", "email", "address", "city", "zone_id", "postcode",
      "country_id", "loginname", "password">>

\* self._fill_mandatory_fields(firstname, lastname, email, telephone, password):
\* the values passed by position.
FillShortCall == <<"firstname", "lastname", "email", "telephone", "password">>

\* Python binds a call: every parameter without a default gets a positional
\* or a keyword argument, or the call raises TypeError before the body runs.
PythonCallBinds(params, positional, keywords) ==
    \A i \in 1..Len(params) : i <= Len(positional) \/ params[i] \in keywords

\* The flags of register_new_user_with_options that are passed as True.
OptionFlags == {"newsletter", "accept_terms", "use_keyboard"}

RegisterFlow_verify_registering_with_invalid_email(args) ==
    <<FlStep("navigate_to_register_page"), FlStep("call_fill_mandatory_fields")>>
    \o RegisterFlow_fill_mandatory_fields(NoFields)
    \o RegisterFlow_submit_registration(FALSE, TRUE, FALSE)
    \o <<FlStep("register_get_error_message")>>

RegisterFlow_register_new_user_with_options(args) ==
    <<FlStep("navigate_to_register_page"), FlStep("call_fill_mandatory_fields")>>
    \o RegisterFlow_fill_mandatory_fields(NoFields)
    \o RegisterFlow_submit_registration("newsletter" \in args.given,
                                        "accept_terms" \in args.given,
                                        "use_keyboard" \in args.given)
    \o <<FlStep("is_success_message_displayed"), FlStep("register_get_message")>>

LoginFlow_verify_login_with_empty_fields(args) ==
    <<FlStep("click_login_register_link"), FlStep("click_login_button"),
      FlStep("get_error_message")>>

\* if value: self.account_page.enter_account_...(value)
FlIfTruthy(args, f) == IF f \in args.given THEN <<FlEnterAccount(f)>> ELSE <<>>

\* AccountFlow._fill_account_information
AccountFlow_fill_account_information(args) ==
    FlIfTruthy(args, "first_name") \o FlIfTruthy(args, "last_name")
    \o FlIfTruthy(args, "email") \o FlIfTruthy(args, "telephone")
    \o FlIfTruthy(args, "company")

\* AccountFlow.update_account_with_flexible_options, change_password=False
AccountFlow_update_account_with_flexible_options(args) ==
    <<FlStep("click_account_dashboard_link"), FlStep("click_edit_account_button")>>
    \o AccountFlow_fill_account_information(args)
    \o <<FlStep("click_save_changes_button"), FlStep("account_get_messages"),
         FlStep("get_account_information")>>

RegisterFlows ==
    {"verify_registering_with_mandatory_fields",
     "verify_registering_with_newsletter_subscription",
     "verify_registering_after_deleting_session_cookies",
     "verify_registering_using_keyboard_keys"}

Program(flow, args) ==
    CASE flow = "verify_registering_with_mandatory_fields" ->
            RegisterFlow_verify_registering_with_mandatory_fields(args)
      [] flow = "verify_registering_with_newsletter_subscription" ->
            RegisterFlow_verify_registering_with_newsletter_subscription(args)
      [] flow = "verify_registering_after_deleting_session_cookies" ->
            RegisterFlow_verify_registering_after_deleting_session_cookies(args)
      [] flow = "verify_registering_using_keyboard_keys" ->
            RegisterFlow_verify_registering_using_keyboard_keys(args)
      [] flow = "verify_login_with_empty_fields" ->
            LoginFlow_verify_login_with_empty_fields(args)
      [] flow = "verify_registering_with_invalid_email" ->
            RegisterFlow_verify_registering_with_invalid_email(args)
      [] flow = "register_new_user_with_options" ->
            RegisterFlow_register_new_user_with_options(args)
      [] flow = "update_account_with_flexible_options" ->
            AccountFlow_update_account_with_flexible_options(args)
      [] flow = "submit_registration" ->
            RegisterFlow_submit_registration("newsletter" \in args.given,
                                             "accept_terms" \in args.given,
                                             "use_keyboard" \in args.given)
      [] OTHER -> <<>>

\* The registration form can be worked on: the session is open, the form is
\* the page shown and its inputs are found and interactable.
FormReady(br, env) ==
    br.session /\ br.page \in {"register", "rejected"} /\ env.fault # "inputs"

\* The storefront answers a submitted registration form.
StorefrontSubmit(br, env) ==
    IF StorefrontAccepts(br)
    THEN [br EXCEPT !.page = "success", !.prompt = env.prompt]
    ELSE [br EXCEPT !.page = "rejected"]

\* What the driver answers about the page shown, for the success check.
FlowSignals(br, env) ==
    IF br.page = "success"
    THEN [url |-> TRUE, msg |-> "visible", others |-> FALSE, keyword |-> TRUE,
          alt |-> "visible"]
    ELSE [url |-> FALSE, msg |-> "absent", others |-> FALSE, keyword |-> FALSE,
          alt |-> IF env.noise THEN "visible" ELSE "absent"]

\* is_success_message_displayed on a page that stays as it is during the call;
\* err: a driver call fails (closed session, open alert).
is_success_message_displayed(pg, err) ==
    IF err THEN FALSE
    ELSE pg.url \/ pg.msg = "visible" \/ SuccessIndicators(pg) \/ AlternativeLocators(pg)

\* RegisterFlow._handle_save_address_alert: a JavaScript alert is dismissed;
\* otherwise the first clickable button matching one of the selectors is
\* clicked, the Save button of a dialog before any other button.
RegisterFlow_handle_save_address_alert(br, env) ==
    IF ~br.session THEN br
    ELSE IF br.prompt \in {"alert", "modal"} THEN [br EXCEPT !.prompt = "none"]
    ELSE IF env.stray THEN [br EXCEPT !.page = "site"]
    ELSE br

FlOut(br, exc, val, txt) == [br |-> br, exc |-> exc, val |-> val, txt |-> txt]

\* SessionUtils.delete_all_cookies: try: self.driver.delete_all_cookies();
\* return True / except Exception: return False
SessionUtils_delete_all_cookies(br, env) ==
    IF br.session /\ env.fault # "cookies"
    THEN FlOut([br EXCEPT !.cookies = FALSE], NoExc, "True", "")
    ELSE FlOut(br, NoExc, "False", "")

\* driver.find_element(*locator) on an input of the registration form, called
\* by a flow without a handler.
FlFindInput(br, env) ==
    IF ~br.session THEN "WebDriverException"
    ELSE IF ~FormReady(br, env) THEN "NoSuchElementException"
    ELSE NoExc

\* WebDriverWait(driver, t).until(EC.element_to_be_clickable(DROPDOWN)) in
\* select_country and select_zone, without a handler.
FlWaitDropdown(br, env) ==
    IF ~br.session THEN "WebDriverException"
    ELSE IF br.page \notin {"register", "rejected"} \/ env.fault = "dropdowns"
    THEN "TimeoutException"
    ELSE NoExc

\* self.wait.until(...) of an AccountPage action, without a handler.
FlWaitAccount(br, env) ==
    IF ~br.session THEN "WebDriverException"
    ELSE IF env.fault = "account" THEN "TimeoutException"
    ELSE NoExc

\* enter_... with driver.find_element called without a handler.
RegisterPage_enter_unguarded(f, br, env) ==
    IF FormReady(br, env)
    THEN FlOut([br EXCEPT !.filled = @ \cup {f}], NoExc, None, "")
    ELSE FlOut(br, "NoSuchElementException", None, "")

\* RegisterPage.enter_firstname ... enter_confirm_password:
\* self.element_utils.type_text(locator, text), which fills the input when it
\* is found and answers False otherwise.
RegisterPage_enter(f, br, env) ==
    IF FormReady(br, env)
    THEN FlOut([br EXCEPT !.filled = @ \cup {f}], NoExc, None, "")
    ELSE FlOut(br, NoExc, None, "")

\* One call of a page object, utility or driver method by a flow; success is
\* the value is_success_message_displayed returned earlier in the flow.
PageCall(step, br, env, success) ==
    CASE step.op = "navigate_to_register_page" ->
            IF br.session THEN FlOut(RegisterForm(br), NoExc, None, "")
            ELSE FlOut(br, "WebDriverException", None, "")
      [] step.op = "enter" -> RegisterPage_enter(step.f, br, env)
      [] step.op = "type_and_tab" ->
            IF FlFindInput(br, env) = NoExc
            THEN FlOut([br EXCEPT !.filled = @ \cup {step.f}], NoExc, None, "")
            ELSE FlOut(br, FlFindInput(br, env), None, "")
      [] step.op = "send_key" -> FlOut(br, "AttributeError", None, "")
      [] step.op = "call_fill_mandatory_fields" ->
            IF PythonCallBinds(FillMandatoryParams, FillShortCall, {"use_slow_typing"})
            THEN FlOut(br, NoExc, None, "")
            ELSE FlOut(br, "TypeError", None, "")
      [] step.op = "register_get_error_message" ->
            FlOut(br, NoExc, "str",
                  IF br.session /\ br.page = "rejected" THEN "error" ELSE "")
      [] step.op = "register_get_message" ->
            FlOut(br, NoExc, "dict",
                  IF success /\ br.page = "success" THEN SuccessText
                  ELSE IF br.session /\ br.page = "rejected" THEN "error" ELSE "")
      [] step.op = "select_country" ->
            IF FlWaitDropdown(br, env) = NoExc
            THEN FlOut([br EXCEPT !.country = TRUE], NoExc, None, "")
            ELSE FlOut(br, FlWaitDropdown(br, env), None, "")
      [] step.op = "select_zone" ->
            IF FlWaitDropdown(br, env) = NoExc
            THEN FlOut([br EXCEPT !.zone = TRUE], NoExc, None, "")
            ELSE FlOut(br, FlWaitDropdown(br, env), None, "")
      [] step.op = "select_newsletter_yes" ->
            IF FormReady(br, env)
            THEN FlOut([br EXCEPT !.newsletter = "yes"], NoExc, None, "")
            ELSE FlOut(br, NoExc, None, "")
      [] step.op = "select_newsletter_no" ->
            IF FormReady(br, env)
            THEN FlOut([br EXCEPT !.newsletter = "no"], NoExc, None, "")
            ELSE FlOut(br, NoExc, None, "")
      [] step.op = "check_terms_and_conditions" ->
            IF FormReady(br, env)
            THEN FlOut([br EXCEPT !.terms = ~@], NoExc, None, "")
            ELSE FlOut(br, NoExc, None, "")
      [] step.op = "click_continue_button" ->
            IF FormReady(br, env) THEN FlOut(StorefrontSubmit(br, env), NoExc, None, "")
            ELSE FlOut(br, NoExc, None, "")
      [] step.op = "press_enter" ->
            IF FlFindInput(br, env) = NoExc
            THEN FlOut(StorefrontSubmit(br, env), NoExc, None, "")
            ELSE FlOut(br, FlFindInput(br, env), None, "")
      [] step.op = "handle_save_address_alert" ->
            FlOut(RegisterFlow_handle_save_address_alert(br, env), NoExc, None, "")
      [] step.op = "delete_all_cookies" -> SessionUtils_delete_all_cookies(br, env)
      [] step.op = "is_success_message_displayed" ->
            FlOut(br, NoExc,
                  IF is_success_message_displayed(FlowSignals(br, env),
                                                  ~br.session \/ br.prompt = "alert")
                  THEN "True" ELSE "False", "")
      [] step.op = "quit_if_success" ->
            IF success THEN FlOut([br EXCEPT !.session = FALSE], NoExc, None, "")
            ELSE FlOut(br, NoExc, None, "")
      [] step.op = "return_success" ->
            FlOut(br, NoExc, IF success THEN "True" ELSE "False", "")
      [] step.op = "click_login_register_link" ->
            IF br.session THEN FlOut([br EXCEPT !.page = "login"], NoExc, None, "")
            ELSE FlOut(br, NoExc, None, "")
      [] step.op = "click_login_button" ->
            IF br.session /\ br.page = "login"
            THEN FlOut([br EXCEPT !.page = "login_error"], NoExc, None, "")
            ELSE FlOut(br, NoExc, None, "")
      [] step.op = "get_error_message" ->
            IF ~br.session \/ br.page # "login_error" \/ env.fault = "error_absent"
            THEN FlOut(br, NoExc, "str", "")
            ELSE IF env.fault = "error_stale"
            THEN FlOut(br, "StaleElementReferenceException", None, "")
            ELSE FlOut(br, NoExc, "str", "Error: Incorrect login or password provided.")
      [] step.op \in {"click_account_dashboard_link", "click_edit_account_button",
                      "click_save_changes_button"} ->
            IF FlWaitAccount(br, env) = NoExc
            THEN FlOut([br EXCEPT !.page = "account"], NoExc, None, "")
            ELSE FlOut(br, FlWaitAccount(br, env), None, "")
      [] step.op = "enter_account" ->
            IF FlWaitAccount(br, env) = NoExc
            THEN FlOut([br EXCEPT !.filled = @ \cup {step.f}], NoExc, None, "")
            ELSE FlOut(br, FlWaitAccount(br, env), None, "")
      [] step.op = "account_get_messages" -> FlOut(br, NoExc, None, "")
      [] step.op = "get_account_information" ->
            IF FlWaitAccount(br, env) = NoExc THEN FlOut(br, NoExc, "dict", "")
            ELSE FlOut(br, FlWaitAccount(br, env), None, "")

\* The calls that go through ElementUtils, WaitUtils or a method with its own
\* try/except.
GuardedOps ==
    {"enter", "select_newsletter_yes", "select_newsletter_no",
     "check_terms_and_conditions", "click_continue_button",
     "handle_save_address_alert", "delete_all_cookies",
     "is_success_message_displayed", "click_login_register_link",
     "click_login_button", "account_get_messages", "quit_if_success",
     "return_success"}

NoArgs == [given |-> {}, blank |-> {}]
NoStorefront ==
    [fault |-> "none", prompt |-> "none", noise |-> FALSE, stray |-> FALSE]

FlNoRun ==
    [flow |-> "none", args |-> NoArgs, pc |-> 1, status |-> "idle", ret |-> None,
     txt |-> "", exc |-> NoExc, success |-> FALSE, at |-> FlStep("none"),
     ticked |-> FALSE]

\* Before a test: no flow runs; the fixture has opened a session.
FlInit ==
    /\ flEnv = NoStorefront
    /\ flBr = FreshBrowser
    /\ flRun = FlNoRun
    /\ flTrace = <<>>

FlIdle == FlInit

\* A test calls a flow against some storefront.
FlCall(flow, args) ==
    /\ flRun.status = "idle"
    /\ flEnv' \in Storefronts
    /\ flRun' = [FlNoRun EXCEPT !.flow = flow, !.args = args, !.status = "running"]
    /\ UNCHANGED <<flBr, flTrace>>
    /\ FlFrame

FlVerifyRegisteringWithMandatoryFields ==
    \E given \in SUBSET {"telephone"} :
        FlCall("verify_registering_with_mandatory_fields", [NoArgs EXCEPT !.given = given])

FlVerifyRegisteringWithNewsletterSubscription ==
    \E given \in SUBSET OptionalFields :
        FlCall("verify_registering_with_newsletter_subscription",
               [NoArgs EXCEPT !.given = given])

FlVerifyRegisteringAfterDeletingSessionCookies ==
    \E given \in SUBSET {"telephone"} :
        FlCall("verify_registering_after_deleting_session_cookies",
               [NoArgs EXCEPT !.given = given])

FlVerifyRegisteringUsingKeyboardKeys ==
    \E given \in SUBSET {"fax", "company"} :
        FlCall("verify_registering_using_keyboard_keys", [NoArgs EXCEPT !.given = given])

FlVerifyLoginWithEmptyFields == FlCall("verify_login_with_empty_fields", NoArgs)

FlVerifyRegisteringWithInvalidEmail ==
    FlCall("verify_registering_with_invalid_email", NoArgs)

FlRegisterNewUserWithOptions ==
    \E flags \in SUBSET OptionFlags :
        FlCall("register_new_user_with_options", [NoArgs EXCEPT !.given = flags])

\* Each account field is given a text, given as "" or not given.
FlUpdateAccountWithFlexibleOptions ==
    \E given \in SUBSET AccountFields :
        \E blank \in SUBSET (AccountFields \ given) :
            FlCall("update_account_with_flexible_options",
                   [given |-> given, blank |-> blank])

\* The registration form with every required input filled and a country and a
\* zone chosen, its Terms & Conditions checkbox ticked or not.
FilledForm(br, ticked) ==
    [RegisterForm(br) EXCEPT !.filled = RegisterFields \ OptionalFields,
                             !.country = TRUE, !.zone = TRUE, !.terms = ticked]

\* A test calls _submit_registration on a filled form; the checkbox may have
\* been ticked before (RegisterPage.check_terms_and_conditions is public).
FlSubmitRegistration ==
    \E flags \in SUBSET OptionFlags, ticked \in BOOLEAN :
        /\ flRun.status = "idle"
        /\ flEnv' \in Storefronts
        /\ flBr' = FilledForm(flBr, ticked)
        /\ flRun' = [FlNoRun EXCEPT !.flow = "submit_registration",
                                    !.args = [NoArgs EXCEPT !.given = flags],
                                    !.status = "running", !.ticked = ticked]
        /\ UNCHANGED flTrace
        /\ FlFrame

\* The running flow makes its next call; an exception of the call ends the
\* flow, the last call returns its value to the test.
FlExec ==
    /\ flRun.status = "running"
    /\ LET prog == Program(flRun.flow, flRun.args)
           step == prog[flRun.pc]
           r == PageCall(step, flBr, flEnv, flRun.success)
       IN /\ flBr' = r.br
          /\ IF r.exc # NoExc
             THEN /\ flRun' = [flRun EXCEPT !.status = "raised", !.exc = r.exc, !.at = step]
                  /\ flTrace' = flTrace
             ELSE /\ flTrace' = Append(flTrace, step)
                  /\ flRun' =
                        [flRun EXCEPT
                            !.pc = @ + 1,
                            !.success = IF step.op = "is_success_message_displayed"
                                        THEN r.val = "True" ELSE @,
                            !.status = IF flRun.pc = Len(prog) THEN "returned" ELSE @,
                            !.ret = IF flRun.pc = Len(prog) THEN r.val ELSE @,
                            !.txt = IF flRun.pc = Len(prog) THEN r.txt ELSE @]
    /\ UNCHANGED flEnv
    /\ FlFrame

\* The test is over; the fixture gives the next test a new session.
FlTeardown ==
    /\ flRun.status \in {"returned", "raised"}
    /\ flEnv' = NoStorefront
    /\ flBr' = FreshBrowser
    /\ flRun' = FlNoRun
    /\ flTrace' = <<>>
    /\ FlFrame

FlNext ==
    \/ FlVerifyRegisteringWithMandatoryFields
    \/ FlVerifyRegisteringWithNewsletterSubscription
    \/ FlVerifyRegisteringAfterDeletingSessionCookies
    \/ FlVerifyRegisteringUsingKeyboardKeys
    \/ FlVerifyLoginWithEmptyFields
    \/ FlVerifyRegisteringWithInvalidEmail
    \/ FlRegisterNewUserWithOptions
    \/ FlUpdateAccountWithFlexibleOptions
    \/ FlSubmitRegistration
    \/ FlExec
    \/ FlTeardown

(***************************************************************************)
(* LoginFlow (src/flows/login_flow.py) over LoginPage                      *)
(* (src/pages/login_page.py), with the time the storefront takes to        *)
(* redirect after a login                                                  *)
(***************************************************************************)

\* When the redirect to the account page completes after a submission of
\* valid credentials: before the submitting command returns, within the
\* fixed delay of one second, right after the URL was read, within an
\* explicit wait of ten seconds, or later than that.
Lags == {"now", "sleep", "check", "wait", "late"}

\* The storefront a login flow runs against.
\*   valid   the credentials are those of an account
\*   enter   the Enter key sent to the password field submits the form
\*   lag     when the redirect completes
\*   err     the error element after a rejected login: shown, not there yet,
\*           or going stale when read
\*   inputs  the login inputs are found by driver.find_element
LoginStorefronts ==
    [valid : BOOLEAN, enter : BOOLEAN, lag : Lags,
     err : {"shown", "absent", "stale"}, inputs : BOOLEAN]

\* The session of a login test: the page shown, the redirect under way, the
\* clicks the login button received, whether a login was rejected.
LoginBrowser ==
    [page |-> "site", pending |-> "none", clicks |-> 0, rejected |-> FALSE]

\* The form is submitted, by the button or by the Enter key.
LoginSubmit(br, env) ==
    IF br.page # "login" THEN br
    ELSE IF ~env.valid THEN [br EXCEPT !.rejected = TRUE]
    ELSE IF env.lag = "now" THEN [br EXCEPT !.page = "account", !.pending = "none"]
    ELSE IF br.pending # "none" THEN br
    ELSE [br EXCEPT !.pending = env.lag]

\* The redirects of the given lags complete.
LoginSettle(br, lags) ==
    IF br.pending \in lags THEN [br EXCEPT !.page = "account", !.pending = "none"]
    ELSE br

\* time.sleep(1)
LoginAfterSleep(br) == LoginSettle(br, {"sleep"})

\* The next command after the URL was read reaches the browser.
LoginAfterCheck(br) == LoginSettle(br, {"sleep", "check"})

\* An explicit wait of ten seconds that is not answered before.
LoginAfterWait(br) == LoginSettle(br, {"sleep", "check", "wait"})

\* "rt=account/account" in driver.current_url
LoginRedirected(br) == br.page = "account"

\* click_login_button that clicks without looking for the button.
click_login_button_blind(br, env) ==
    LoginSubmit([LoginAfterCheck(br) EXCEPT !.clicks = @ + 1], env)

\* LoginPage.click_login_button: wait_for_clickable(LOGIN_BUTTON, timeout=10),
\* then element_utils.click(LOGIN_BUTTON); both answer without raising, and
\* the button is clicked when the login page still shows it.
click_login_button(br, env) ==
    LET b == LoginAfterCheck(br)
    IN IF b.page = "login"
       THEN LoginSubmit([b EXCEPT !.clicks = @ + 1], env)
       ELSE LoginAfterWait(b)

\* is_my_account_displayed that looks once instead of waiting.
LoginPage_is_my_account_displayed_no_wait(br) ==
    [br |-> br, val |-> br.page = "account"]

\* LoginPage.is_my_account_displayed:
\* wait_utils.wait_for_visibility(MY_ACCOUNT_INDICATOR, timeout=10) is not None
LoginPage_is_my_account_displayed(br) ==
    LET b == LoginAfterWait(br)
    IN [br |-> b, val |-> b.page = "account"]

MyAccountText == "My Account"
ErrorText == "Error: Incorrect login or password provided."

\* LoginPage.get_my_account_text
LoginPage_get_my_account_text(br) ==
    IF br.page = "account" THEN MyAccountText ELSE ""

\* LoginPage.get_error_message: "" without an error element, its text
\* otherwise; the text of a stale element is not modelled here (it raises).
LoginPage_get_error_message(br, env) ==
    IF br.rejected /\ env.err = "shown" THEN ErrorText ELSE ""

LoginFlowNames ==
    {"validate_login_using_keyboard_keys", "verify_login_with_valid_credentials",
     "login_user_with_options"}

LgNoRun ==
    [flow |-> "none", use_keyboard |-> FALSE, pc |-> "idle", status |-> "idle",
     ret |-> None, msg |-> "", exc |-> NoExc, seen |-> FALSE, via |-> "none"]
NoLoginStorefront ==
    [valid |-> FALSE, enter |-> FALSE, lag |-> "now", err |-> "shown", inputs |-> TRUE]

LgInit ==
    /\ lgEnv = NoLoginStorefront
    /\ lgBr = LoginBrowser
    /\ lgRun = LgNoRun

LgIdle == LgInit

\* A test calls a login flow.
LgCall(flow, use_keyboard) ==
    /\ lgRun.status = "idle"
    /\ lgEnv' \in LoginStorefronts
    /\ lgRun' = [LgNoRun EXCEPT !.flow = flow, !.use_keyboard = use_keyboard,
                                !.pc = "navigate", !.status = "running"]
    /\ UNCHANGED lgBr
    /\ LgFrame

LgValidateLoginUsingKeyboardKeys == LgCall("validate_login_using_keyboard_keys", TRUE)
LgVerifyLoginWithValidCredentials == LgCall("verify_login_with_valid_credentials", FALSE)
LgLoginUserWithOptions ==
    \E use_keyboard \in BOOLEAN : LgCall("login_user_with_options", use_keyboard)

LgAt(pc) == lgRun.status = "running" /\ lgRun.pc = pc
LgGoto(pc) == lgRun' = [lgRun EXCEPT !.pc = pc]
LgReturn(ret, msg, via) ==
    lgRun' = [lgRun EXCEPT !.pc = "done", !.status = "returned", !.ret = ret,
                           !.msg = msg, !.via = via]
LgRaise(exc) ==
    lgRun' = [lgRun EXCEPT !.pc = "done", !.status = "raised", !.exc = exc]

\* _navigate_to_login
LgNavigateToLogin ==
    /\ LgAt("navigate")
    /\ lgBr' = [lgBr EXCEPT !.page = "login"]
    /\ LgGoto("enter")
    /\ UNCHANGED lgEnv
    /\ LgFrame

\* _enter_credentials: with the keyboard, driver.find_element is called
\* without a handler and type_and_enter sends Enter after the password.
LgEnterCredentials ==
    /\ LgAt("enter")
    /\ IF lgRun.use_keyboard /\ ~lgEnv.inputs
       THEN /\ LgRaise("NoSuchElementException")
            /\ UNCHANGED lgBr
       ELSE /\ lgBr' = IF lgRun.use_keyboard /\ lgEnv.enter
                       THEN LoginSubmit(lgBr, lgEnv) ELSE lgBr
            /\ LgGoto(CASE lgRun.flow = "validate_login_using_keyboard_keys" -> "sleep"
                        [] lgRun.flow = "verify_login_with_valid_credentials" -> "click"
                        [] OTHER -> "submit")
    /\ UNCHANGED lgEnv
    /\ LgFrame

\* validate_login_using_keyboard_keys: time.sleep(1), then the URL is read.
LgSleepAndReadUrl ==
    /\ LgAt("sleep")
    /\ lgBr' = LoginAfterSleep(lgBr)
    /\ IF LoginRedirected(lgBr')
       THEN LgReturn("True", "", "url")
       ELSE LgGoto("click")
    /\ UNCHANGED lgEnv
    /\ LgFrame

\* self.login_page.click_login_button() of the two verify/validate flows.
LgClickLoginButton ==
    /\ LgAt("click")
    /\ lgBr' = click_login_button(lgBr, lgEnv)
    /\ LgGoto(IF lgRun.flow = "verify_login_with_valid_credentials"
              THEN "url" ELSE "account")
    /\ UNCHANGED lgEnv
    /\ LgFrame

\* verify_login_with_valid_credentials: the URL is read when the click
\* returns.
LgReadUrl ==
    /\ LgAt("url")
    /\ LgReturn(IF LoginRedirected(lgBr) THEN "True" ELSE "False", "", "url")
    /\ UNCHANGED <<lgEnv, lgBr>>
    /\ LgFrame

\* _submit_login: the click unless the keyboard was used, then
\* is_my_account_displayed(), whose answer login_user_with_options drops.
LgSubmitLogin ==
    /\ LgAt("submit")
    /\ lgBr' = LoginPage_is_my_account_displayed(
                   IF lgRun.use_keyboard THEN lgBr
                   ELSE click_login_button(lgBr, lgEnv)).br
    /\ LgGoto("account")
    /\ UNCHANGED lgEnv
    /\ LgFrame

\* is_my_account_displayed; validate_login_using_keyboard_keys returns it,
\* login_user_with_options goes on to read the message.
LgIsMyAccountDisplayed ==
    /\ LgAt("account")
    /\ LET r == LoginPage_is_my_account_displayed(lgBr)
       IN /\ lgBr' = r.br
          /\ IF lgRun.flow = "login_user_with_options"
             THEN lgRun' = [lgRun EXCEPT !.pc = "message", !.seen = r.val]
             ELSE lgRun' = [lgRun EXCEPT !.pc = "done", !.status = "returned",
                                         !.ret = IF r.val THEN "True" ELSE "False",
                                         !.seen = r.val, !.via = "account"]
    /\ UNCHANGED lgEnv
    /\ LgFrame

\* login_user_with_options: the message, then the dict.
LgGetMessage ==
    /\ LgAt("message")
    /\ IF ~lgRun.seen /\ lgBr.rejected /\ lgEnv.err = "stale"
       THEN LgRaise("StaleElementReferenceException")
       ELSE LgReturn(IF lgRun.seen THEN "True" ELSE "False",
                     IF lgRun.seen THEN LoginPage_get_my_account_text(lgBr)
                     ELSE LoginPage_get_error_message(lgBr, lgEnv),
                     "dict")
    /\ UNCHANGED <<lgEnv, lgBr>>
    /\ LgFrame

\* The test is over; the next test gets a new session.
LgTeardown ==
    /\ lgRun.status \in {"returned", "raised"}
    /\ lgEnv' = NoLoginStorefront
    /\ lgBr' = LoginBrowser
    /\ lgRun' = LgNoRun
    /\ LgFrame

LgNext ==
    \/ LgValidateLoginUsingKeyboardKeys
    \/ LgVerifyLoginWithValidCredentials
    \/ LgLoginUserWithOptions
    \/ LgNavigateToLogin
    \/ LgEnterCredentials
    \/ LgSleepAndReadUrl
    \/ LgClickLoginButton
    \/ LgReadUrl
    \/ LgSubmitLogin
    \/ LgIsMyAccountDisplayed
    \/ LgGetMessage
    \/ LgTeardown

(***************************************************************************)
(* Two tests in parallel, each with its own session, page objects and flow *)
(* (BasePage.__init__, RegisterFlow.__init__, LoginFlow.__init__)          *)
(***************************************************************************)

Sessions == {1, 2}

\* The storefronts and flows of the parallel tests.
PairStorefronts ==
    {env \in Storefronts :
        env.fault \in {"none", "dropdowns"} /\ env.prompt # "alert" /\ ~env.noise}
PairFlows == {"verify_registering_with_mandatory_fields", "verify_login_with_empty_fields"}

\* Every component of test i keeps the driver of that test.
BasePage_driver_shared(i) == 1

\* BasePage.__init__: self.driver = driver, the driver of the test's fixture;
\* the utilities and flows take it from the page object.
BasePage_driver(i) == i

PrNoRun ==
    [flow |-> "none", pc |-> 1, status |-> "idle", ret |-> None, txt |-> "",
     exc |-> NoExc, success |-> FALSE]

PrInit ==
    /\ prEnv = [i \in Sessions |-> NoStorefront]
    /\ prBr = [i \in Sessions |-> FreshBrowser]
    /\ prRun = [i \in Sessions |-> PrNoRun]

PrIdle == PrInit

\* The run after one more call of its flow on the given session.
PrAdvance(run, br, env) ==
    LET prog == Program(run.flow, NoArgs)
        step == prog[run.pc]
        r == PageCall(step, br, env, run.success)
    IN [br |-> r.br,
        run |-> IF r.exc # NoExc
                THEN [run EXCEPT !.status = "raised", !.exc = r.exc]
                ELSE [run EXCEPT
                        !.pc = @ + 1,
                        !.success = IF step.op = "is_success_message_displayed"
                                    THEN r.val = "True" ELSE @,
                        !.status = IF run.pc = Len(prog) THEN "returned" ELSE @,
                        !.ret = IF run.pc = Len(prog) THEN r.val ELSE @,
                        !.txt = IF run.pc = Len(prog) THEN r.txt ELSE @]]

\* Test i calls its flow.
PrCall ==
    \E i \in Sessions, flow \in PairFlows, env \in PairStorefronts :
        /\ prRun[i].status = "idle"
        /\ prEnv' = [prEnv EXCEPT ![i] = env]
        /\ prRun' = [prRun EXCEPT ![i] = [PrNoRun EXCEPT !.flow = flow,
                                                        !.status = "running"]]
        /\ UNCHANGED prBr
        /\ PrFrame

\* The flow of test i makes its next call, on the driver its components keep.
PrExec ==
    \E i \in Sessions :
        /\ prRun[i].status = "running"
        /\ LET d == BasePage_driver(i)
               a == PrAdvance(prRun[i], prBr[d], prEnv[d])
           IN /\ prBr' = [prBr EXCEPT ![d] = a.br]
              /\ prRun' = [prRun EXCEPT ![i] = a.run]
        /\ UNCHANGED prEnv
        /\ PrFrame

\* Both tests are over.
PrTeardown ==
    /\ \A i \in Sessions : prRun[i].status \in {"returned", "raised"}
    /\ prEnv' = [i \in Sessions |-> NoStorefront]
    /\ prBr' = [i \in Sessions |-> FreshBrowser]
    /\ prRun' = [i \in Sessions |-> PrNoRun]
    /\ PrFrame

PrNext == PrCall \/ PrExec \/ PrTeardown

\* The flow run alone on a fresh session, up to its end.
RECURSIVE RunAlone(_, _, _)
RunAlone(run, br, env) ==
    IF run.status # "running" THEN [run |-> run, br |-> br]
    ELSE LET a == PrAdvance(run, br, env)
         IN RunAlone(a.run, a.br, env)

(***************************************************************************)
(* RegisterFlow._handle_save_address_alert (src/flows/register_flow.py),   *)
(* selector by selector                                                    *)
(***************************************************************************)

\* button_selectors, in the order of the list.
ButtonSelectors ==
    <<"//button[contains(text(), 'Save')]",
      "//div[@role='dialog']//button[contains(text(), 'Save')]",
      "//button[contains(., 'Save')]",
      "//div//button[1]">>

\* What the driver answers for the first match of a selector: no clickable
\* element within the wait, an element whose click goes through, or an
\* element that passes element_to_be_clickable and whose click raises
\* (covered by another element, gone stale).
ButtonStates == {"none", "clickable", "intercepted"}

\* The page the handler is called on.
HandlerPages ==
    [alert : BOOLEAN, sel : [DOMAIN ButtonSelectors -> ButtonStates]]

HsNoPage == [alert |-> FALSE, sel |-> [k \in DOMAIN ButtonSelectors |-> "none"]]

HsInit ==
    /\ hsPage = HsNoPage
    /\ hsPc = "idle"
    /\ hsLog = <<>>

HsIdle == HsInit

HsDid(act, k) == [act |-> act, k |-> k]

\* The loop that goes on to the next selector after a click as well.
HandlerLoop_keeps_trying(outcome, k) ==
    IF k < Len(ButtonSelectors) THEN "selector" ELSE "done"

\* for selector in button_selectors: a click that went through returns; a
\* TimeoutException and any other exception continue with the next selector;
\* after the last selector the handler returns.
HandlerLoop(outcome, k) ==
    IF outcome = "click" THEN "done"
    ELSE IF k < Len(ButtonSelectors) THEN "selector"
    ELSE "done"

\* The handler is called after a submission.
HsCall ==
    /\ hsPc = "idle"
    /\ hsPage' \in HandlerPages
    /\ hsPc' = "alert"
    /\ hsLog' = <<>>
    /\ HsFrame

\* WebDriverWait(driver, 2).until(EC.alert_is_present()); alert.dismiss();
\* return -- or, without an alert, on to the buttons.
HsAlert ==
    /\ hsPc = "alert"
    /\ IF hsPage.alert
       THEN /\ hsPage' = [hsPage EXCEPT !.alert = FALSE]
            /\ hsLog' = Append(hsLog, HsDid("dismiss", 0))
            /\ hsPc' = "done"
       ELSE /\ hsPc' = "selector"
            /\ UNCHANGED <<hsPage, hsLog>>
    /\ HsFrame

\* The selectors tried so far in this call.
HsTried == {hsLog[i].k : i \in 1..Len(hsLog)} \ {0}

\* One round of the loop: wait up to a second for the selector's first match
\* to be clickable, click it, return.
HsSelector ==
    /\ hsPc = "selector"
    /\ LET k == Cardinality(HsTried) + 1
           outcome == CASE hsPage.sel[k] = "none" -> "timeout"
                        [] hsPage.sel[k] = "clickable" -> "click"
                        [] OTHER -> "failed"
       IN /\ hsLog' = Append(hsLog, HsDid(outcome, k))
          /\ hsPc' = HandlerLoop(outcome, k)
    /\ UNCHANGED hsPage
    /\ HsFrame

\* The handler has returned; the flow goes on.
HsReturn ==
    /\ hsPc = "done"
    /\ hsPage' = HsNoPage
    /\ hsPc' = "idle"
    /\ hsLog' = <<>>
    /\ HsFrame

HsNext == HsCall \/ HsAlert \/ HsSelector \/ HsReturn

(***************************************************************************)
(* Specifications: one per component                                       *)
(***************************************************************************)

InitCheckbox == CbInit /\ WIdle /\ ElIdle /\ DdIdle /\ SpIdle /\ FlIdle /\ LgIdle /\ PrIdle /\ HsIdle
SpecCheckbox == InitCheckbox /\ [][CbNext]_vars

InitWait == WInit /\ CbIdle /\ ElIdle /\ DdIdle /\ SpIdle /\ FlIdle /\ LgIdle /\ PrIdle /\ HsIdle
SpecWait == InitWait /\ [][WNext]_vars

\* The calling thread keeps running its poll loop: it is blocked in it.
FairWait == SpecWait /\ WF_vars(WaitPoll)

InitElement == ElInit /\ CbIdle /\ WIdle /\ DdIdle /\ SpIdle /\ FlIdle /\ LgIdle /\ PrIdle /\ HsIdle
SpecElement == InitElement /\ [][ElNext]_vars

InitDropdown == DdInit /\ CbIdle /\ WIdle /\ ElIdle /\ SpIdle /\ FlIdle /\ LgIdle /\ PrIdle /\ HsIdle
SpecDropdown == InitDropdown /\ [][DdNext]_vars

InitSuccess == SpInit /\ CbIdle /\ WIdle /\ ElIdle /\ DdIdle /\ FlIdle /\ LgIdle /\ PrIdle /\ HsIdle
SpecSuccess == InitSuccess /\ [][SpNext]_vars

InitFlow == FlInit /\ CbIdle /\ WIdle /\ ElIdle /\ DdIdle /\ SpIdle /\ LgIdle /\ PrIdle /\ HsIdle
SpecFlow == InitFlow /\ [][FlNext]_vars

InitLogin == LgInit /\ CbIdle /\ WIdle /\ ElIdle /\ DdIdle /\ SpIdle /\ FlIdle /\ PrIdle /\ HsIdle
SpecLogin == InitLogin /\ [][LgNext]_vars

InitPair == PrInit /\ CbIdle /\ WIdle /\ ElIdle /\ DdIdle /\ SpIdle /\ FlIdle /\ LgIdle /\ HsIdle
SpecPair == InitPair /\ [][PrNext]_vars

InitHandler == HsInit /\ CbIdle /\ WIdle /\ ElIdle /\ DdIdle /\ SpIdle /\ FlIdle /\ LgIdle /\ PrIdle
SpecHandler == InitHandler /\ [][HsNext]_vars

(***************************************************************************)
(* Claims about CheckboxUtils, checked under SpecCheckbox                  *)
(***************************************************************************)

\* is_checked(el) was called right after set_state(el, s), on a real handle.
CbSetStateThenIsChecked ==
    /\ cbLast.op = "is_checked" /\ cbLast.h = "el"
    /\ cbPrev.op = "set_state" /\ cbPrev.h = "el"

CbSetStateTwice ==
    /\ cbLast.op = "set_state" /\ cbPrev.op = "set_state"
    /\ cbLast.h = cbPrev.h /\ cbLast.arg = cbPrev.arg

\* C2: set_state is idempotent: the second of two set_state(el, s) calls in a
\* row leaves the selection state as the first call left it, issues no click
\* when the element is already in state s, and never more than one click.
C2_SetStateIdempotent ==
    CbSetStateTwice =>
        /\ cbLast.post.selected = cbPrev.post.selected
        /\ cbLast.clicks <= 1
        /\ (WebElement_is_selected(cbLast.pre) = [exc |-> NoExc, val |-> cbLast.arg]
            => cbLast.clicks = 0)

\* The first call clicked and succeeded, the second call found the state
\* reached and did not click.
C2_Witness ==
    /\ CbSetStateTwice /\ cbLast.h = "el"
    /\ cbPrev.clicks = 1 /\ cbPrev.ret
    /\ cbLast.clicks = 0 /\ cbLast.ret

\* The state a conditional-click operation aims at.
CbTarget(call) ==
    IF call.op = "check" THEN TRUE
    ELSE IF call.op = "uncheck" THEN FALSE
    ELSE call.arg

\* C3: check clicks only if the element is unselected, uncheck only if it is
\* selected, set_state exactly when the current state differs from the desired
\* one, never more than once; each returns True only if the selection state
\* re-read after the optional click equals the target state, and False
\* otherwise, without raising.
C3_ConditionalClickAndVerify ==
    cbLast.op \in {"check", "uncheck", "set_state"} =>
        /\ cbLast.raised = NoExc
        /\ cbLast.clicks <= 1
        /\ cbLast.clicks = 1 <=>
              /\ cbLast.h = "el"
              /\ WebElement_is_selected(cbLast.pre) = [exc |-> NoExc, val |-> ~CbTarget(cbLast)]
        /\ cbLast.ret <=>
              /\ cbLast.h = "el"
              /\ WebElement_is_selected(cbLast.post) = [exc |-> NoExc, val |-> CbTarget(cbLast)]

\* uncheck clicked a selected element whose state did not change (a disabled
\* box, or a radio) and returned False.
C3_Witness ==
    /\ cbLast.op = "uncheck" /\ cbLast.h = "el"
    /\ cbLast.clicks = 1 /\ ~cbLast.ret
    /\ cbLast.post.attached /\ cbLast.post.selected

(***************************************************************************)
(* Claims about WaitUtils, checked under SpecWait / FairWait               *)
(***************************************************************************)

\* What each wait method waits for, in terms of the node the locator matches.
WaitSatisfied(method, dom) ==
    CASE method = "wait_for_visibility" -> dom.present /\ dom.displayed
      [] method = "wait_for_clickable" -> dom.present /\ dom.displayed /\ dom.enabled
      [] method = "wait_for_presence" -> dom.present
      [] method = "wait_for_element" -> dom.present
      [] method = "wait_for_invisibility" -> ~dom.present \/ ~dom.displayed
      [] OTHER -> FALSE

\* The last poll of the call that returned found the condition satisfied.
WaitFound ==
    /\ wRet.exc # "WebDriverException"
    /\ WaitSatisfied(wCall.method, wRet.dom)

\* C6: every wait (visibility, presence, clickability, invisibility) ends: a
\* blocked call is never past its deadline, a call returns at most one polling
\* interval after its deadline, and every call that started returns.
C6_WaitTerminatesWithinDeadlinePlusPoll ==
    /\ [](wPc = "polling" => wElapsed <= wCall.limit)
    /\ [](wPc = "returned" => wElapsed <= wCall.limit + 1)
    /\ ((wPc = "polling") ~> (wPc = "returned"))

\* A visibility wait with the largest timeout on a locator that was not
\* visible at any poll returned one polling interval after its deadline.
C6_Witness ==
    /\ wPc = "returned" /\ wCall.method = "wait_for_visibility"
    /\ wCall.limit = MaxTimeout /\ wElapsed = MaxTimeout + 1
    /\ wRet.exc = "TimeoutException" /\ ~wRet.dom.present

C8_WaitNeverRaisesEffectiveTimeout ==
    /\ [](wRet.raised = NoExc)
    /\ [](wPc = "returned" =>
            /\ wRet.ret = IF wCall.method = "wait_for_invisibility"
                          THEN (IF WaitFound THEN "True" ELSE "False")
                          ELSE (IF WaitFound THEN "el" ELSE None)
            /\ WaitFound => wElapsed <= wCall.limit)
    /\ [](wPc # "idle" =>
            wCall.limit = IF wCall.timeout = NoTimeout THEN wSelf ELSE wCall.timeout[1])
    /\ [][wSelf' = wSelf]_vars

\* A presence wait called with timeout 0 on an instance whose default is
\* larger polled once and returned None after one polling interval.
C8_Witness ==
    /\ wPc = "returned" /\ wCall.method = "wait_for_presence"
    /\ wCall.timeout = <<0>> /\ wSelf = MaxTimeout
    /\ wRet.ret = None /\ wElapsed = 1

(***************************************************************************)
(* Claims about ElementUtils / BasePage / LoginPage, under SpecElement     *)
(***************************************************************************)

ElementCommands == {"click", "clear", "send_keys", "text", "get_attribute"}

\* The commands of a trace that act on an element.
ElTouches(trace) == {i \in 1..Len(trace) : trace[i] \in ElementCommands}

\* The most recent call is one of the wrapper actions click, type-text, clear,
\* get-text, get-attribute of ElementUtils or BasePage.
ElWrapperAction ==
    \/ /\ elLast.cls = "ElementUtils"
       /\ elLast.op \in {"click", "type_text", "clear_field", "get_text", "get_attribute"}
    \/ /\ elLast.cls = "BasePage"
       /\ elLast.op \in {"click", "type", "clear", "get_text", "get_attribute"}

\* The neutral default of the most recent call: False for the boolean actions,
\* the empty string for the text reads.
ElReturnedDefault ==
    IF elLast.op \in {"get_text", "get_attribute"}
    THEN elLast.ret = "str" /\ elLast.txt = <<>>
    ELSE elLast.ret = "False"

ElRequiredWait ==
    IF elLast.op \in {"click", "click_login_button"}
    THEN {"wait_for_clickable"}
    ELSE {"wait_for_presence", "wait_for_element"}

ElInteraction == ElWrapperAction \/ elLast.cls = "LoginPage"

\* C5, as stated: every wrapper action resolves its locator through the wait
\* primitive with the minimum required condition and only then acts on the
\* resolved element; no action touches an element looked up without a wait.
C5_ActionsResolveThroughWait ==
    ElInteraction =>
        /\ \A i \in 1..Len(elLast.trace) : elLast.trace[i] # "find_element"
        /\ ElTouches(elLast.trace) # {} =>
              /\ elLast.trace[1] \in ElRequiredWait
              /\ elLast.waited = "el"

\* C5, amended: an ElementUtils action calls no wait: it looks the element up
\* with one immediate driver.find_element and, if that found a node, issues
\* one element command on it (type_text: clear, then send_keys);
\* LoginPage.click_login_button waits for clickability first, drops the
\* result, and ElementUtils.click then looks the button up again; a BasePage
\* action issues no element command unless its wait returned an element.
C5_ElementUtilsLooksUpWithoutWait ==
    /\ (ElInteraction /\ elLast.cls = "ElementUtils") =>
          /\ elLast.waited = "nowait"
          /\ elLast.trace[1] = "find_element"
          /\ \A i \in 1..Len(elLast.trace) : elLast.trace[i] \notin WaitMethods
          /\ ElTouches(elLast.trace) # {} <=> elLast.pre.present
          /\ Cardinality(ElTouches(elLast.trace)) <= IF elLast.op = "type_text" THEN 2 ELSE 1
    /\ elLast.cls = "LoginPage" =>
          /\ elLast.trace[1] = "wait_for_clickable"
          /\ elLast.trace[2] = "find_element"
          /\ ElTouches(elLast.trace) # {} <=> elLast.post.present
    /\ (ElInteraction /\ elLast.cls = "BasePage") =>
          (ElTouches(elLast.trace) # {} => elLast.waited = "el")

\* click_login_button: the wait for clickability timed out on a displayed but
\* disabled button, and the click was issued all the same.
C5_Witness ==
    /\ elLast.cls = "LoginPage" /\ elLast.waited = None
    /\ elLast.trace = <<"wait_for_clickable", "find_element", "click">>
    /\ elLast.exc = NoExc

\* C9: after a text entry that clears first (BasePage.type with
\* clear_first=True, ElementUtils.type_text) on an input that is present and
\* editable, the field value equals exactly the input text, whatever the field
\* held before.
C9_ClearFirstTypeSetsValue ==
    (/\ \/ elLast.cls = "ElementUtils" /\ elLast.op = "type_text"
        \/ elLast.cls = "BasePage" /\ elLast.op = "type" /\ elLast.flag
     /\ elLast.pre.present /\ elLast.pre.displayed /\ elLast.pre.enabled
     /\ elLast.stale = "no")
    => elLast.post.value = elLast.text

(***************************************************************************)
(* Claims about DropdownUtils, checked under SpecDropdown                  *)
(***************************************************************************)

\* get_selected_option_text(el) was called right after a
\* select_by_visible_text(el, t) that returned True.
DdSelectThenGet ==
    /\ ddLast.op = "get_selected_option_text" /\ ddLast.h = "el"
    /\ ddPrev.op = "select_by_visible_text" /\ ddPrev.h = "el"
    /\ ddPrev.ret = "True"

\* C10, as stated: when select_by_visible_text(el, t) returns True, an
\* immediately following get_selected_option_text(el) returns t, also for a
\* multi-select control that already had another option selected.
C10_SelectThenGetReturnsSelected ==
    DdSelectThenGet => (ddLast.ret = "str" /\ ddLast.txt = ddPrev.text)

\* C10, amended: when select_by_visible_text(el, t) returned True and the
\* handle is still attached, the get_selected_option_text(el) that follows
\* returns the text of the first selected option in document order; that is t
\* for every single-select control, and for a multi-select control t is the
\* text of one of the selected options.
C10_SelectThenGetReturnsFirstSelected ==
    DdSelectThenGet =>
        IF ~ddEl.attached THEN ddLast.ret = None
        ELSE LET sel == {i \in DOMAIN ddEl.options : ddEl.options[i].selected} IN
             /\ ddLast.ret = "str"
             /\ \E i \in sel : /\ \A j \in sel : i <= j
                               /\ ddLast.txt = Normalize(ddEl.options[i].raw)
             /\ \E i \in sel : Normalize(ddEl.options[i].raw) = ddPrev.text
             /\ ~ddEl.multiple => ddLast.txt = ddPrev.text

\* On a single-select control select_by_visible_text clicked an option that
\* was not selected, and the read that followed returned its text.
C10_Witness ==
    /\ DdSelectThenGet /\ ~ddEl.multiple /\ ddEl.attached
    /\ ddPrev.clicks = 1
    /\ ddLast.ret = "str" /\ ddLast.txt = ddPrev.text

(***************************************************************************)
(* Claims about the success check, checked under SpecSuccess               *)
(***************************************************************************)

\* What each signal of the cascade says about a page.
SpSignal(k, pg) ==
    CASE k = 1 -> pg.url
      [] k = 2 -> pg.msg = "visible"
      [] k = 3 -> pg.url \/ pg.keyword
      [] k = 4 -> pg.alt = "visible"

\* The call consulted signal k and found it negative.
SpFoundNegative(k) == \E i \in DOMAIN spReads : spReads[i] = SpRead(k, FALSE)

SpMessageAfterSuccess == spMsg.called /\ spMsg.after = "True"

FlDid(step) == \E i \in 1..Len(flTrace) : flTrace[i] = step

\* The position of the first completed call of this kind, 0 when none.
FlFirst(step) ==
    IF FlDid(step)
    THEN CHOOSE i \in 1..Len(flTrace) :
            flTrace[i] = step /\ \A j \in 1..(i - 1) : flTrace[j] # step
    ELSE 0

FlOver == flRun.status \in {"returned", "raised"}

\* The flow filled every mandatory field, accepted the terms and submitted.
FlFilledAcceptedSubmitted(submit) ==
    /\ \A f \in RegisterFields \ OptionalFields : FlDid(FlEnter(f))
    /\ FlDid(FlStep("select_country")) /\ FlDid(FlStep("select_zone"))
    /\ FlDid(FlStep("check_terms_and_conditions"))
    /\ FlDid(FlStep(submit))

\* The save-address handler finds nothing but a button that is not a Save
\* button, and clicks it.
FlStrayClick(env) == env.prompt = "none" /\ env.stray

FlAt(step) == {i \in 1..Len(flTrace) : flTrace[i] = step}
FlEnterAt == {i \in 1..Len(flTrace) : flTrace[i].op = "enter"}

\* The steps of the cookie scenario come in the order navigate, delete all
\* cookies, navigate, fill, submit, handle the save-address alert, check
\* success; no field is filled before delete_all_cookies was called, nor,
\* unless the driver refused the deletion, while the cookies are still there.
FlCookieOrder ==
    /\ Len(flTrace) >= 1 => flTrace[1] = FlStep("navigate_to_register_page")
    /\ Len(flTrace) >= 2 => flTrace[2] = FlStep("delete_all_cookies")
    /\ Len(flTrace) >= 3 => flTrace[3] = FlStep("navigate_to_register_page")
    /\ \A i \in FlEnterAt : i > 3
    /\ (flBr.filled # {} /\ flEnv.fault # "cookies") => ~flBr.cookies
    /\ \A i \in FlAt(FlStep("click_continue_button")) :
          /\ \A j \in FlEnterAt : j < i
          /\ \A f \in RegisterFields \ OptionalFields : FlDid(FlEnter(f))
    /\ \A i \in FlAt(FlStep("handle_save_address_alert")) :
          flTrace[i - 1] = FlStep("click_continue_button")
    /\ \A i \in FlAt(FlStep("is_success_message_displayed")) :
          flTrace[i - 1] = FlStep("handle_save_address_alert")
    /\ flRun.status = "returned" => FlDid(FlStep("is_success_message_displayed"))

C16_EmptyLoginReturnsNonEmptyMessage ==
    (flRun.flow = "verify_login_with_empty_fields" /\ FlOver)
    => /\ flRun.status = "returned"
       /\ flRun.ret = "str"
       /\ flRun.txt # ""

\* C17: verify_registering_using_keyboard_keys called without fax and company
\* runs to completion and returns True against an accepting storefront.
C17_KeyboardRegistrationCompletes ==
    (/\ flRun.flow = "verify_registering_using_keyboard_keys"
     /\ flRun.args.given \cap {"fax", "company"} = {}
     /\ Healthy(flEnv)
     /\ FlOver)
    => /\ flRun.status = "returned"
       /\ flRun.ret = "True"

\* C18: after a flow returns, the browser session it was given is still open.
C18_SessionOpenAfterFlowReturns ==
    flRun.status = "returned" => flBr.session

\* The exceptions of an element that is not found, not interactable or stale.
ElementExceptions ==
    {"TimeoutException", "NoSuchElementException", "StaleElementReferenceException"}

FlRegisterFillConditional ==
    flRun.flow \in RegisterFlows \ {"verify_registering_using_keyboard_keys"}
    => /\ \A f \in OptionalFields : FlDid(FlEnter(f)) => f \in flRun.args.given
       /\ flBr.filled \cap OptionalFields \subseteq flRun.args.given
       /\ FlDid(FlEnter("confirm"))
          => /\ \A f \in RegisterFields \ OptionalFields : FlDid(FlEnter(f))
             /\ \A f \in flRun.args.given : FlDid(FlEnter(f))

\* _fill_account_information was passed over: the flow clicked Save.
FlAccountFilled ==
    /\ flRun.flow = "update_account_with_flexible_options"
    /\ FlDid(FlStep("click_save_changes_button"))

LgEnterLoggedIn == lgEnv.valid /\ lgEnv.enter

LgKeyboardReturned ==
    /\ lgRun.flow = "validate_login_using_keyboard_keys"
    /\ lgRun.status = "returned"

PrAlone(i) ==
    RunAlone([PrNoRun EXCEPT !.flow = prRun[i].flow, !.status = "running"],
             FreshBrowser, prEnv[i])

PrOver(i) == prRun[i].status \in {"returned", "raised"}

C23_CountryBeforeZone ==
    flRun.flow \in RegisterFlows
    => /\ \A i \in FlAt(FlStep("select_zone")) :
             \E j \in 1..(i - 1) : flTrace[j] = FlStep("select_country")
       /\ flBr.zone => flBr.country
       /\ (flRun.status = "raised" /\ flRun.at.op = "select_zone")
          => FlDid(FlStep("select_country"))
       /\ (flRun.status = "raised" /\ flRun.at.op = "select_country")
          => ~FlDid(FlStep("select_zone")) /\ ~flBr.zone

\* The keyboard scenario selected the country and then the zone.
C23_Witness ==
    /\ flRun.flow = "verify_registering_using_keyboard_keys"
    /\ FlDid(FlStep("select_zone"))
    /\ FlFirst(FlStep("select_country")) < FlFirst(FlStep("select_zone"))
    /\ flBr.country /\ flBr.zone

\* The dismissing actions of the call so far: the alert dismissed, a button
\* clicked.
HsActions == {i \in 1..Len(hsLog) : hsLog[i].act \in {"dismiss", "click"}}

\* The selectors whose first match passes element_to_be_clickable.
HsClickable == {k \in DOMAIN ButtonSelectors : hsPage.sel[k] # "none"}

\* The selectors whose first match takes the click.
HsTakesClick == {k \in DOMAIN ButtonSelectors : hsPage.sel[k] = "clickable"}

HsMin(S) == CHOOSE k \in S : \A j \in S : k <= j

\* C24 as stated: at most one dismissing action per call; an alert is
\* dismissed and no button clicked; otherwise the first selector that is
\* clickable is clicked and no later selector is tried; the handler returns
\* without raising.
C24_HandlerClicksFirstClickable ==
    /\ Cardinality(HsActions) <= 1
    /\ hsPc = "done"
       => IF Len(hsLog) > 0 /\ hsLog[1].act = "dismiss"
          THEN hsLog = <<HsDid("dismiss", 0)>>
          ELSE IF HsClickable = {}
          THEN HsActions = {} /\ HsTried = DOMAIN ButtonSelectors
          ELSE /\ HsTried = 1..HsMin(HsClickable)
               /\ hsLog[Len(hsLog)] = HsDid("click", HsMin(HsClickable))

\* C24 amended: at most one dismissing action per call; an alert is dismissed
\* and no button clicked; otherwise the selectors are tried in their order,
\* one whose element is not clickable in time or whose click raises is
\* skipped, the first one whose click goes through is clicked and no later
\* selector is tried; the handler returns without raising.
C24_HandlerClicksFirstThatTakesTheClick ==
    /\ Cardinality(HsActions) <= 1
    /\ \A i \in 1..Len(hsLog) : hsLog[i].k = 0 \/ hsLog[i].k = i
    /\ hsPc = "done"
       => IF Len(hsLog) > 0 /\ hsLog[1].act = "dismiss"
          THEN hsLog = <<HsDid("dismiss", 0)>>
          ELSE IF HsTakesClick = {}
          THEN HsActions = {} /\ HsTried = DOMAIN ButtonSelectors
          ELSE /\ HsTried = 1..HsMin(HsTakesClick)
               /\ hsLog[Len(hsLog)] = HsDid("click", HsMin(HsTakesClick))

\* Without an alert, the first selector found a button whose click raised
\* and the second selector's button was clicked; the handler returned.
C24_Witness ==
    /\ hsPc = "done"
    /\ hsPage.sel[1] = "intercepted"
    /\ hsLog = <<HsDid("failed", 1), HsDid("click", 2)>>

\* C25: verify_login_with_valid_credentials returns True if the login was
\* successful and False otherwise, also when the redirect to the account page
\* completes only some time after the click on the login button returned.
C25_ValidLoginReturnsTrue ==
    (lgRun.flow = "verify_login_with_valid_credentials" /\ lgRun.status = "returned")
    => (lgRun.ret = "True" <=> lgEnv.valid)

\* C26: register_new_user_with_options returns a dict and
\* verify_registering_with_invalid_email returns the error message string;
\* both run the fill-and-submit steps to completion for every combination of
\* their arguments.
C26_OptionFlowsRunToCompletion ==
    (/\ flRun.flow \in {"register_new_user_with_options",
                        "verify_registering_with_invalid_email"}
     /\ FlOver)
    => /\ flRun.status = "returned"
       /\ FlDid(FlEnter("firstname"))
       /\ FlDid(FlStep("click_continue_button")) \/ FlDid(FlStep("press_enter"))
       /\ flRun.ret = (IF flRun.flow = "register_new_user_with_options"
                       THEN "dict" ELSE "str")


(***************************************************************************)
(* C27: BasePage.is_visible and BasePage.get_text                          *)
(***************************************************************************)

\* C27: BasePage.is_visible(locator) returns True when the locator matches a
\* present, displayed element and False otherwise, and BasePage.get_text(locator)
\* returns the text of the element when the element is present and attached.
C27_IsVisibleAndGetTextReportTheElement ==
    /\ (elLast.cls = "BasePage" /\ elLast.op = "is_visible")
           => /\ elLast.raised = NoExc
              /\ elLast.ret = (IF elLast.pre.present /\ elLast.pre.displayed
                               THEN "True" ELSE "False")
    /\ (elLast.cls = "BasePage" /\ elLast.op = "get_text" /\ elLast.stale = "no"
           /\ elLast.pre.present /\ elLast.pre.displayed)
           => /\ elLast.raised = NoExc
              /\ elLast.ret = "str"
              /\ elLast.txt = elLast.pre.text


(***************************************************************************)
(* C28: LoginFlow.login_user_with_options                                  *)
(***************************************************************************)

LgOptionsReturned ==
    lgRun.flow = "login_user_with_options" /\ lgRun.status = "returned"

\* The form was submitted: by the button, or by an Enter key that submits.
LgOptionsSubmitted == ~lgRun.use_keyboard \/ lgEnv.enter

FlSubmitOver ==
    /\ flRun.flow = "submit_registration"
    /\ flRun.status = "returned"
    /\ flEnv.fault # "inputs"

\* C29: when _submit_registration has submitted a form whose elements are
\* found, the Terms & Conditions checkbox is selected if accept_terms is True,
\* whatever its state was before the call, and is as it was before the call if
\* accept_terms is False; the newsletter radio chosen by
\* newsletter_subscription, and only that one, was clicked before.
C29_TermsSelectedAtSubmit ==
    FlSubmitOver =>
        /\ "accept_terms" \in flRun.args.given => flBr.terms
        /\ "accept_terms" \notin flRun.args.given => flBr.terms = flRun.ticked
        /\ flBr.newsletter = (IF "newsletter" \in flRun.args.given THEN "yes" ELSE "no")
        /\ flBr.page \in {"success", "rejected", "site"}


(***************************************************************************)
(* C30: the cookie scenario and a deletion that fails                      *)
(***************************************************************************)

\* C30: verify_registering_after_deleting_session_cookies returns True only
\* when the cookies of the session were deleted before the form was
\* submitted; when SessionUtils.delete_all_cookies returns False the flow does
\* not return True.
C30_CookieFlowTrueOnlyIfCookiesDeleted ==
    (/\ flRun.flow = "verify_registering_after_deleting_session_cookies"
     /\ flRun.status = "returned"
     /\ flRun.ret = "True")
    => /\ ~flBr.cookies
       /\ flEnv.fault # "cookies"

====
